---- MODULE Spec2Model ----
(***************************************************************************)
(* A model of the OkBTree ordered set of src/src/lib.rs and of the         *)
(* externally-lengthed slot array of src/src/arrayvec.rs.                  *)
(*                                                                         *)
(* A slot (MaybeUninit<T>) is a cell: <<>> when it holds no live value,    *)
(* <<x>> when it holds x.  A value that is moved out of a slot leaves the  *)
(* slot empty.  Values in flight (arguments, return values, Option<_>)     *)
(* are cells as well, so that a read of an uninitialised slot is visible   *)
(* as an empty cell where a value was expected.  Code indices are 0-based; *)
(* slot i of the code is element i + 1 of the tuple.                       *)
(***************************************************************************)
EXTENDS Integers, Sequences, FiniteSets, TLC

\* the fanout factor
M == 2

\* keys of the interleaved specification
MaxKey == 9
\* keys of the specification with distinguishable equal elements
MaxEqKey == 4

Keys == 1..MaxKey
EqKeys == 1..MaxEqKey
Tags == {0, 1}

\* an element of T: ordered by k alone, t tells equal elements apart
Elem(k, t) == [k |-> k, t |-> t]

CellKey(c) == IF c = <<>> THEN 0 ELSE c[1].k

-----------------------------------------------------------------------------
(* DetachedArrayVec<T, CAP>, CAP = M *)

AvNew == [i \in 1..M |-> <<>>]

\* the slot at code index i, read by pointer
AvSlot(xs, i) == IF i + 1 \in 1..M THEN xs[i + 1] ELSE <<>>

AvInsertPre(len, index) == index <= len /\ len < M

\* mutant: the element is written at index and nothing is moved out of its way
AvInsertNoShift(xs, len, index, element) ==
    [i \in 1..M |-> IF i = index + 1 THEN element ELSE xs[i]]

\* the slots from index to len move up by one and the element is written at
\* index
AvInsert(xs, len, index, element) ==
    [i \in 1..M |-> IF i = index + 1 THEN element
                    ELSE IF i > index + 1 /\ i <= len + 1 THEN xs[i - 1]
                    ELSE xs[i]]

AvRemovePre(len, index) == index < len /\ len <= M

\* mutant: the slots behind the removed one are not moved back
AvRemoveNoShift(xs, len, index) ==
    [out |-> AvSlot(xs, index),
     xs  |-> [i \in 1..M |-> IF i = index + 1 THEN <<>> ELSE xs[i]]]

\* drain(len, index..index+1).next(), then Drain::drop moves the tail back
AvRemove(xs, len, index) ==
    [out |-> AvSlot(xs, index),
     xs  |-> [i \in 1..M |-> IF i >= index + 1 /\ i < len THEN xs[i + 1]
                             ELSE IF i = len \/ i = index + 1 THEN <<>>
                             ELSE xs[i]]]

AvSplitOffPre(len, at) == at <= len /\ len <= M

AvSplitOff(xs, len, at) ==
    [self  |-> [i \in 1..M |-> IF i > at /\ i <= len THEN <<>> ELSE xs[i]],
     other |-> [i \in 1..M |-> IF i <= len - at THEN AvSlot(xs, at + i - 1) ELSE <<>>]]

AvPushPre(len) == len < M

AvPush(xs, len, element) == [i \in 1..M |-> IF i = len + 1 THEN element ELSE xs[i]]

AvPopPre(len) == len # 0 /\ len <= M

AvPop(xs, len) ==
    [out |-> AvSlot(xs, len - 1),
     xs  |-> [i \in 1..M |-> IF i = len THEN <<>> ELSE xs[i]]]

\* as_slice / as_mut_slice: the first len slots
AvSlice(xs, len) == [i \in 1..(IF len <= M THEN len ELSE M) |-> xs[i]]

\* slice indexing, bounds-checked
At(slice, i) == IF i + 1 \in 1..Len(slice) THEN slice[i + 1] ELSE <<>>

-----------------------------------------------------------------------------
(* probes: BinarySearch<K> for Comp<Q>, First and Last *)

Comp(q) == [kind |-> "Comp", q |-> q]
First == [kind |-> "First", q |-> 0]
Last == [kind |-> "Last", q |-> 0]

Ok(i) == [ok |-> TRUE, idx |-> i]
Err(i) == [ok |-> FALSE, idx |-> i]

\* the ordering of a pivot relative to the probe key: q.compare(pivot).reverse()
Compare(q, pivot) ==
    IF CellKey(pivot) < q THEN "Less"
    ELSE IF CellKey(pivot) > q THEN "Greater"
    ELSE "Equal"

\* the halving loop of slice::binary_search_by
RECURSIVE BsLoop(_, _, _, _)
BsLoop(pivots, q, base, size) ==
    IF size > 1
    THEN LET half == size \div 2
             mid == base + half
         IN BsLoop(pivots, q,
                   IF Compare(q, pivots[mid + 1]) = "Greater" THEN base ELSE mid,
                   size - half)
    ELSE base

\* mutant: a miss above the probed pivot is reported at the pivot, not past it
CompBinarySearchNoStep(q, pivots) ==
    IF Len(pivots) = 0 THEN Err(0)
    ELSE LET base == BsLoop(pivots, q, 0, Len(pivots))
             cmp == Compare(q, pivots[base + 1])
         IN IF cmp = "Equal" THEN Ok(base) ELSE Err(base)

CompBinarySearch(q, pivots) ==
    IF Len(pivots) = 0 THEN Err(0)
    ELSE LET base == BsLoop(pivots, q, 0, Len(pivots))
             cmp == Compare(q, pivots[base + 1])
         IN IF cmp = "Equal" THEN Ok(base)
            ELSE Err(base + (IF cmp = "Less" THEN 1 ELSE 0))

\* mutant: the Last probe meets nothing, in a leaf as above the leaves
LastBinarySearchMiss(pivots, height) == Err(Len(pivots))

\* mutant: the last index is taken before the slice is known to hold anything
LastBinarySearchUnguarded(pivots, height) ==
    IF height = 0 THEN Ok(Len(pivots) - 1) ELSE Err(Len(pivots))

LastBinarySearch(pivots, height) ==
    IF height = 0 /\ Len(pivots) # 0 THEN Ok(Len(pivots) - 1) ELSE Err(Len(pivots))

\* mutant: the first pivot is a hit at any height
FirstBinarySearchAnyHeight(pivots, height) ==
    IF Len(pivots) # 0 THEN Ok(0) ELSE Err(0)

FirstBinarySearch(pivots, height) ==
    IF height = 0 /\ Len(pivots) # 0 THEN Ok(0) ELSE Err(0)

binary_search(b, pivots, height) ==
    CASE b.kind = "Comp" -> CompBinarySearch(b.q, pivots)
      [] b.kind = "Last" -> LastBinarySearch(pivots, height)
      [] b.kind = "First" -> FirstBinarySearch(pivots, height)

-----------------------------------------------------------------------------
(* NodeArray<T, M> and Children<T, M> *)

Node(len, pivots, head, tail) ==
    [len |-> len, pivots |-> pivots, head |-> head, tail |-> tail]

\* Children::get / get_mut: the cell holding child number index
ChildrenGet(node, index) ==
    IF index = 0 THEN node.head ELSE At(AvSlice(node.tail, node.len), index - 1)

\* the effect of writing through the reference get_mut returned
ChildrenSet(node, index, child) ==
    IF index = 0 THEN [node EXCEPT !.head = child]
    ELSE IF index \in 1..M THEN [node EXCEPT !.tail[index] = child]
    ELSE node

\* the node a child cell holds; an empty cell yields a node with nothing in it
Deref(c) == IF c = <<>> THEN Node(0, AvNew, <<>>, AvNew) ELSE c[1]

\* the labels of the contracts a step broke
Need(cond, label) == IF cond THEN {} ELSE {label}

Children_push_front(node, len, t) ==
    [node EXCEPT !.head = t, !.tail = AvInsert(node.tail, len, 0, node.head)]

\* mutant: the first child is handed out and stays where it was
Children_pop_front_copy(node, len) == [out |-> node.head, node |-> node]

Children_pop_front(node, len) ==
    LET r == AvRemove(node.tail, len, 0)
    IN [out |-> node.head, node |-> [node EXCEPT !.head = r.out, !.tail = r.xs]]

-----------------------------------------------------------------------------
(* insert *)

Done == "Done"
Propagate == "Propagate"

Event(e, height, i) == [e |-> e, h |-> height, i |-> i]

\* a call of insert, search or remove on a node at this height is under way:
\* the log of what it returns starts with the call
Visited(r, height) == [r EXCEPT !.ev = <<Event("visit", height, 0)>> \o @]

InsertResult(node, res, pivot, right, bad, ev) ==
    [node |-> node, res |-> res, pivot |-> pivot, right |-> right, bad |-> bad, ev |-> ev]

\* mutant: the incoming value is the median wherever it was to go
insert_split_mid(self, index, value, child) ==
    LET m2 == M \div 2
        sp == AvSplitOff(self.pivots, M, m2)
        st == AvSplitOff(self.tail, M, m2)
    IN InsertResult(
           IF child # <<>> THEN Node(m2, sp.self, self.head, st.self)
                           ELSE Node(m2, sp.self, self.head, self.tail),
           Propagate, value,
           <<IF child # <<>> THEN Node(m2, sp.other, child, st.other)
                             ELSE Node(m2, sp.other, <<>>, AvNew)>>,
           {}, <<>>)

\* mutant: an index above the median is taken for an index at it
insert_split_ge(self, index, value, child) ==
    LET m2 == M \div 2
        m2m1 == m2 - 1
    IN IF index >= m2
       THEN LET sp == AvSplitOff(self.pivots, M, m2)
                st == AvSplitOff(self.tail, M, m2)
                left == IF child # <<>>
                        THEN Node(m2, sp.self, self.head, st.self)
                        ELSE Node(m2, sp.self, self.head, self.tail)
                new_node == IF child # <<>>
                            THEN Node(m2, sp.other, child, st.other)
                            ELSE Node(m2, sp.other, <<>>, AvNew)
            IN InsertResult(left, Propagate, value, <<new_node>>, {}, <<>>)
       ELSE LET sp == AvSplitOff(self.pivots, M, m2)
                pp == AvPop(sp.self, m2)
                st == AvSplitOff(self.tail, M, m2)
                tp == AvPop(st.self, m2)
                left == IF child # <<>>
                        THEN Node(m2, AvInsert(pp.xs, m2m1, index, value), self.head,
                                  AvInsert(tp.xs, m2m1, index, child))
                        ELSE Node(m2, AvInsert(pp.xs, m2m1, index, value), self.head,
                                  self.tail)
                new_node == IF child # <<>>
                            THEN Node(m2, sp.other, tp.out, st.other)
                            ELSE Node(m2, sp.other, <<>>, AvNew)
            IN InsertResult(left, Propagate, pp.out, <<new_node>>, {}, <<>>)

\* mutant: an index at the median is taken for an index below it
insert_split_le(self, index, value, child) ==
    LET m2 == M \div 2
        m2m1 == m2 - 1
        m2p1 == m2 + 1
    IN IF index <= m2
       THEN LET sp == AvSplitOff(self.pivots, M, m2)
                pp == AvPop(sp.self, m2)
                st == AvSplitOff(self.tail, M, m2)
                tp == AvPop(st.self, m2)
                left == IF child # <<>>
                        THEN Node(m2, AvInsert(pp.xs, m2m1, index, value), self.head,
                                  AvInsert(tp.xs, m2m1, index, child))
                        ELSE Node(m2, AvInsert(pp.xs, m2m1, index, value), self.head,
                                  self.tail)
                new_node == IF child # <<>>
                            THEN Node(m2, sp.other, tp.out, st.other)
                            ELSE Node(m2, sp.other, <<>>, AvNew)
            IN InsertResult(left, Propagate, pp.out, <<new_node>>, {}, <<>>)
       ELSE LET idx == index - m2p1
                sp == AvSplitOff(self.pivots, M, m2p1)
                pp == AvPop(sp.self, m2p1)
                st == AvSplitOff(self.tail, M, m2p1)
                tp == AvPop(st.self, m2p1)
                left == IF child # <<>>
                        THEN Node(m2, pp.xs, self.head, tp.xs)
                        ELSE Node(m2, pp.xs, self.head, self.tail)
                new_node == IF child # <<>>
                            THEN Node(m2, AvInsert(sp.other, m2m1, idx, value), tp.out,
                                      AvInsert(st.other, m2m1, idx, child))
                            ELSE Node(m2, AvInsert(sp.other, m2m1, idx, value), <<>>,
                                      AvNew)
            IN InsertResult(left, Propagate, pp.out, <<new_node>>, {}, <<>>)

\* NodeArray::insert_split; child is <<>> for None
insert_split(self, index, value, child) ==
    LET m2 == M \div 2
        m2m1 == m2 - 1
        m2p1 == m2 + 1
        pre == Need(self.len = M, "split:len") \cup Need(m2p1 <= M /\ m2 > 0, "split:m")
               \cup Need(m2 >= 1, "sub:M")
    IN IF index = m2
       THEN LET sp == AvSplitOff(self.pivots, M, m2)
                st == AvSplitOff(self.tail, M, m2)
                left == IF child # <<>>
                        THEN Node(m2, sp.self, self.head, st.self)
                        ELSE Node(m2, sp.self, self.head, self.tail)
                new_node == IF child # <<>>
                            THEN Node(m2, sp.other, child, st.other)
                            ELSE Node(m2, sp.other, <<>>, AvNew)
            IN InsertResult(left, Propagate, value, <<new_node>>,
                            pre \cup Need(AvSplitOffPre(M, m2), "split_off"), <<>>)
       ELSE IF index < m2
       THEN LET sp == AvSplitOff(self.pivots, M, m2)
                pp == AvPop(sp.self, m2)
                st == AvSplitOff(self.tail, M, m2)
                tp == AvPop(st.self, m2)
                left == IF child # <<>>
                        THEN Node(m2, AvInsert(pp.xs, m2m1, index, value), self.head,
                                  AvInsert(tp.xs, m2m1, index, child))
                        ELSE Node(m2, AvInsert(pp.xs, m2m1, index, value), self.head,
                                  self.tail)
                new_node == IF child # <<>>
                            THEN Node(m2, sp.other, tp.out, st.other)
                            ELSE Node(m2, sp.other, <<>>, AvNew)
            IN InsertResult(left, Propagate, pp.out, <<new_node>>,
                            pre \cup Need(AvSplitOffPre(M, m2), "split_off")
                                \cup Need(AvPopPre(m2), "pop")
                                \cup Need(AvInsertPre(m2m1, index), "insert"), <<>>)
       ELSE LET idx == index - m2p1
                sp == AvSplitOff(self.pivots, M, m2p1)
                pp == AvPop(sp.self, m2p1)
                st == AvSplitOff(self.tail, M, m2p1)
                tp == AvPop(st.self, m2p1)
                left == IF child # <<>>
                        THEN Node(m2, pp.xs, self.head, tp.xs)
                        ELSE Node(m2, pp.xs, self.head, self.tail)
                new_node == IF child # <<>>
                            THEN Node(m2, AvInsert(sp.other, m2m1, idx, value), tp.out,
                                      AvInsert(st.other, m2m1, idx, child))
                            ELSE Node(m2, AvInsert(sp.other, m2m1, idx, value), <<>>,
                                      AvNew)
            IN InsertResult(left, Propagate, pp.out, <<new_node>>,
                            pre \cup Need(index >= m2p1, "sub:index")
                                \cup Need(AvSplitOffPre(M, m2p1), "split_off")
                                \cup Need(AvPopPre(m2p1), "pop")
                                \cup Need(AvInsertPre(m2m1, idx), "insert"), <<>>)

\* mutant: a full node is not split
insert_here_no_split(self, index, value, new_child) ==
    InsertResult(
        Node(self.len + 1,
             AvInsert(self.pivots, self.len, index, value),
             self.head,
             IF new_child # <<>>
             THEN AvInsert(self.tail, self.len, index, new_child)
             ELSE self.tail),
        Done, <<>>, <<>>,
        Need(AvInsertPre(self.len, index), "insert"), <<>>)

\* the tail of NodeArray::insert: the value (and the child that came up with it)
\* goes into this node, or splits it
insert_here(self, index, value, new_child) ==
    IF self.len = M
    THEN insert_split(self, index, value, new_child)
    ELSE InsertResult(
             Node(self.len + 1,
                  AvInsert(self.pivots, self.len, index, value),
                  self.head,
                  IF new_child # <<>>
                  THEN AvInsert(self.tail, self.len, index, new_child)
                  ELSE self.tail),
             Done, <<>>, <<>>,
             Need(AvInsertPre(self.len, index), "insert"), <<>>)

\* mutant: on an exact hit the value is inserted beside the pivot it equals
replace_pivot_insert(self, index, value) ==
    IF self.len < M
    THEN [self EXCEPT !.pivots = AvInsert(self.pivots, self.len, index, value),
                      !.len = self.len + 1]
    ELSE [self EXCEPT !.pivots[index + 1] = value]

\* mutant: on an exact hit the stored element is kept
replace_pivot_keep(self, index, value) == self

\* NodeArray::insert on an exact hit: the pivot is overwritten in place
replace_pivot(self, index, value) == [self EXCEPT !.pivots[index + 1] = value]

\* NodeArray::insert, the end: what insert_here made of the node is returned;
\* the record of a split keeps the node as it was, what was to go into it,
\* and the two nodes and the median that came of it
inserted(self, value, new_child, h, bad, ev, height, index) ==
    InsertResult(h.node, h.res, h.pivot, h.right, bad \cup h.bad,
                 IF h.res = Propagate
                 THEN Append(ev, [e |-> "split", h |-> height, i |-> index,
                                  self |-> self, value |-> value, child |-> new_child,
                                  left |-> h.node, pivot |-> h.pivot, right |-> h.right])
                 ELSE ev)

\* NodeArray::insert in an internal node, once the child has returned r
insert_above(self, index, height, child, r) ==
    LET self1 == ChildrenSet(self, index, <<r.node>>)
        pre == r.bad \cup Need(self.len > 0, "insert:len")
                     \cup Need(child # <<>>, "uninit")
                     \cup Need(height >= 1, "sub:height")
    IN IF r.res = Done
       THEN InsertResult(self1, Done, <<>>, <<>>, pre, r.ev)
       ELSE inserted(self1, r.pivot, r.right,
                     insert_here(self1, index, r.pivot, r.right), pre, r.ev,
                     height, index)

\* NodeArray::insert
RECURSIVE NodeInsert(_, _, _)
NodeInsert(self, value, height) ==
    LET pivots == AvSlice(self.pivots, self.len)
        bs == binary_search(Comp(CellKey(value)), pivots, height)
        index == bs.idx
    IN Visited(
         IF bs.ok
         THEN InsertResult(replace_pivot(self, index, value),
                           Done, <<>>, <<>>, {}, <<>>)
         ELSE IF height > 0
         THEN insert_above(self, index, height, ChildrenGet(self, index),
                           NodeInsert(Deref(ChildrenGet(self, index)), value,
                                      height - 1))
         ELSE inserted(self, value, <<>>,
                       insert_here(self, index, value, <<>>), {}, <<>>, height, index),
         height)

-----------------------------------------------------------------------------
(* search *)

SearchResult(value, ev) == [value |-> value, ev |-> ev]

RECURSIVE NodeSearch(_, _, _)

\* mutant: below a node the search goes on at the height of that node
NodeSearchSameHeight(self, height, b) ==
    LET pivots == AvSlice(self.pivots, self.len)
        bs == binary_search(b, pivots, height)
    IN Visited(
         IF bs.ok THEN SearchResult(At(pivots, bs.idx), <<>>)
         ELSE IF height = 0 \/ ChildrenGet(self, bs.idx) = <<>>
         THEN SearchResult(<<>>, <<>>)
         ELSE NodeSearch(Deref(ChildrenGet(self, bs.idx)), height, b),
         height)

\* NodeArray::search: the value is a cell, <<>> for None
NodeSearch(self, height, b) ==
    LET pivots == AvSlice(self.pivots, self.len)
        bs == binary_search(b, pivots, height)
    IN Visited(
         IF bs.ok THEN SearchResult(At(pivots, bs.idx), <<>>)
         ELSE IF height = 0 THEN SearchResult(<<>>, <<>>)
         ELSE NodeSearch(Deref(ChildrenGet(self, bs.idx)), height - 1, b),
         height)

-----------------------------------------------------------------------------
(* remove *)

Underflow == "Underflow"
Absent == "None"

RemoveResult(node, res, value, bad, ev) ==
    [node |-> node, res |-> res, value |-> value, bad |-> bad, ev |-> ev]

RECURSIVE NodeRemove(_, _, _)

\* mutant: the children of rhs are left behind
merge_right_no_children(height, lhs, pivot, rhs) ==
    LET m2 == M \div 2
        ps == [j \in 1..M |-> IF j = m2 + 1 THEN pivot
                              ELSE IF j > m2 + 1 THEN AvSlot(rhs.pivots, j - m2 - 2)
                              ELSE lhs.pivots[j]]
    IN [node |-> Node(M, ps, lhs.head, lhs.tail), bad |-> {}]

\* NodeArray::merge_right: rhs is appended to lhs behind the separating pivot
merge_right(height, lhs, pivot, rhs) ==
    LET m2 == M \div 2
        ps == [j \in 1..M |-> IF j = m2 + 1 THEN pivot
                              ELSE IF j > m2 + 1 THEN AvSlot(rhs.pivots, j - m2 - 2)
                              ELSE lhs.pivots[j]]
        cs == [j \in 1..M |-> IF j = m2 + 1 THEN rhs.head
                              ELSE IF j > m2 + 1 THEN AvSlot(rhs.tail, j - m2 - 2)
                              ELSE lhs.tail[j]]
    IN [node |-> Node(M, ps, lhs.head, IF height > 1 THEN cs ELSE lhs.tail),
        bad  |-> Need(lhs.len + rhs.len + 1 = M, "merge:len")
                 \cup Need(M \div 2 >= 1, "sub:M")
                 \cup Need(\A i \in m2..(M - 1) : AvPushPre(i), "push")
                 \cup Need(\A j \in 1..M : ps[j] # <<>>, "uninit")
                 \cup Need(height > 1 => \A j \in 1..M : cs[j] # <<>>, "uninit")]

\* mutant: the separating pivot is pushed after the pivots of rhs
merge_left_pivot_last(height, lhs, pivot, rhs) ==
    LET m2 == M \div 2
        ps == [j \in 1..M |-> IF j = M THEN pivot
                              ELSE IF j >= m2 THEN AvSlot(rhs.pivots, j - m2)
                              ELSE lhs.pivots[j]]
        cs == [j \in 1..M |-> IF j = m2 THEN rhs.head
                              ELSE IF j > m2 THEN AvSlot(rhs.tail, j - m2 - 1)
                              ELSE lhs.tail[j]]
    IN [node |-> Node(M, ps, lhs.head, IF height > 1 THEN cs ELSE lhs.tail),
        bad  |-> {}]

\* NodeArray::merge_left: lhs takes the place of rhs and rhs is appended to it
merge_left(height, lhs, pivot, rhs) ==
    LET m2 == M \div 2
        ps == [j \in 1..M |-> IF j = m2 THEN pivot
                              ELSE IF j > m2 THEN AvSlot(rhs.pivots, j - m2 - 1)
                              ELSE lhs.pivots[j]]
        cs == [j \in 1..M |-> IF j = m2 THEN rhs.head
                              ELSE IF j > m2 THEN AvSlot(rhs.tail, j - m2 - 1)
                              ELSE lhs.tail[j]]
    IN [node |-> Node(M, ps, lhs.head, IF height > 1 THEN cs ELSE lhs.tail),
        bad  |-> Need(lhs.len + rhs.len + 1 = M, "merge:len")
                 \cup Need(M \div 2 >= 1, "sub:M")
                 \cup Need(m2 >= 1 /\ \A i \in (m2 - 1)..(M - 1) : AvPushPre(i), "push")
                 \cup Need(\A j \in 1..M : ps[j] # <<>>, "uninit")
                 \cup Need(height > 1 => \A j \in 1..M : cs[j] # <<>>, "uninit")]

\* what a rotation leaves in lhs, pivot and rhs; ev is the log of the call of
\* remove on the lender when the siblings are leaves
Rotated(lhs, pivot, rhs, bad, ev) ==
    [lhs |-> lhs, pivot |-> pivot, rhs |-> rhs, bad |-> bad, ev |-> ev]

\* mutant: between leaves, the first element of lhs goes up
rotate_right_first(height, lhs, pivot, rhs) ==
    LET m2 == M \div 2
    IN IF height = 1
       THEN LET r == NodeRemove(lhs, height - 1, First)
            IN Rotated(r.node, r.value,
                       [rhs EXCEPT !.pivots = AvInsert(rhs.pivots, m2 - 1, 0, pivot),
                                   !.len = rhs.len + 1],
                       r.bad, r.ev)
       ELSE LET cp == AvPop(lhs.tail, lhs.len)
                pp == AvPop(lhs.pivots, lhs.len)
                rhs1 == Children_push_front(
                            [rhs EXCEPT !.pivots = AvInsert(rhs.pivots, m2 - 1, 0, pivot)],
                            m2 - 1, cp.out)
            IN Rotated([lhs EXCEPT !.tail = cp.xs, !.pivots = pp.xs, !.len = lhs.len - 1],
                       pp.out, [rhs1 EXCEPT !.len = rhs.len + 1], {}, <<>>)

\* NodeArray::rotate_right: the last element of lhs goes up, the pivot goes down
\* to the front of rhs
rotate_right(height, lhs, pivot, rhs) ==
    LET m2 == M \div 2
        pre == Need(height > 0, "rotate:height") \cup Need(lhs.len > m2, "rotate:lender")
               \cup Need(rhs.len = m2 - 1, "rotate:borrower")
               \cup Need(m2 >= 1 /\ AvInsertPre(m2 - 1, 0), "insert")
               \cup Need(m2 >= 1, "sub:M")
               \cup Need(height # 1 => lhs.len >= 1, "sub:len")
    IN IF height = 1
       THEN LET r == NodeRemove(lhs, height - 1, Last)
            IN Rotated(r.node, r.value,
                       [rhs EXCEPT !.pivots = AvInsert(rhs.pivots, m2 - 1, 0, pivot),
                                   !.len = rhs.len + 1],
                       pre \cup r.bad \cup Need(r.res = Done, "unreachable"), r.ev)
       ELSE LET cp == AvPop(lhs.tail, lhs.len)
                pp == AvPop(lhs.pivots, lhs.len)
                rhs1 == Children_push_front(
                            [rhs EXCEPT !.pivots = AvInsert(rhs.pivots, m2 - 1, 0, pivot)],
                            m2 - 1, cp.out)
            IN Rotated([lhs EXCEPT !.tail = cp.xs, !.pivots = pp.xs, !.len = lhs.len - 1],
                       pp.out,
                       [rhs1 EXCEPT !.len = rhs.len + 1],
                       pre \cup Need(AvPopPre(lhs.len), "pop"), <<>>)

\* mutant: between leaves, the last element of rhs goes up
rotate_left_last(height, lhs, pivot, rhs) ==
    LET m2 == M \div 2
    IN IF height = 1
       THEN LET r == NodeRemove(rhs, height - 1, Last)
            IN Rotated([lhs EXCEPT !.pivots = AvPush(lhs.pivots, m2 - 1, pivot),
                                   !.len = lhs.len + 1],
                       r.value, r.node, r.bad, r.ev)
       ELSE LET cp == Children_pop_front(rhs, rhs.len)
                pp == AvRemove(cp.node.pivots, rhs.len, 0)
            IN Rotated([lhs EXCEPT !.pivots = AvPush(lhs.pivots, m2 - 1, pivot),
                                   !.tail = AvPush(lhs.tail, m2 - 1, cp.out),
                                   !.len = lhs.len + 1],
                       pp.out,
                       [cp.node EXCEPT !.pivots = pp.xs, !.len = rhs.len - 1], {}, <<>>)

\* NodeArray::rotate_left: the first element of rhs goes up, the pivot goes down
\* to the end of lhs
rotate_left(height, lhs, pivot, rhs) ==
    LET m2 == M \div 2
        pre == Need(height > 0, "rotate:height") \cup Need(rhs.len > m2, "rotate:lender")
               \cup Need(lhs.len = m2 - 1, "rotate:borrower")
               \cup Need(m2 >= 1 /\ AvPushPre(m2 - 1), "push")
               \cup Need(m2 >= 1, "sub:M")
               \cup Need(height # 1 => rhs.len >= 1, "sub:len")
    IN IF height = 1
       THEN LET r == NodeRemove(rhs, height - 1, First)
            IN Rotated([lhs EXCEPT !.pivots = AvPush(lhs.pivots, m2 - 1, pivot),
                                   !.len = lhs.len + 1],
                       r.value, r.node,
                       pre \cup r.bad \cup Need(r.res = Done, "unreachable"), r.ev)
       ELSE LET cp == Children_pop_front(rhs, rhs.len)
                pp == AvRemove(cp.node.pivots, rhs.len, 0)
            IN Rotated([lhs EXCEPT !.pivots = AvPush(lhs.pivots, m2 - 1, pivot),
                                   !.tail = AvPush(lhs.tail, m2 - 1, cp.out),
                                   !.len = lhs.len + 1],
                       pp.out,
                       [cp.node EXCEPT !.pivots = pp.xs, !.len = rhs.len - 1],
                       pre \cup Need(AvRemovePre(rhs.len, 0), "remove"), <<>>)


\* mutant: the minimum is taken one too low
OutcomeLax(len) == IF len < M \div 2 - 1 THEN Underflow ELSE Done

\* a node that lost a pivot reports whether it fell below the minimum
Outcome(len) == IF len < M \div 2 THEN Underflow ELSE Done

\* the calls a rotation made on the lender, marked as such
Lend(ev) == [j \in 1..Len(ev) |-> [ev[j] EXCEPT !.e = "lend"]]

\* mutant: after a rotation the node reports what a merge would report
rotated_outcome(self, i, rot, value, bad, ev) ==
    RemoveResult(ChildrenSet(ChildrenSet([self EXCEPT !.pivots[i + 1] = rot.pivot],
                                         i, <<rot.lhs>>),
                             i + 1, <<rot.rhs>>),
                 Outcome(self.len - 1), value, bad \cup rot.bad, ev \o Lend(rot.ev))

\* NodeArray::remove after a rotation: the rotation worked on child number i,
\* on child number i + 1 and on the pivot between them, and the node is Done
rotated(self, i, rot, value, bad, ev) ==
    RemoveResult(ChildrenSet(ChildrenSet([self EXCEPT !.pivots[i + 1] = rot.pivot],
                                         i, <<rot.lhs>>),
                             i + 1, <<rot.rhs>>),
                 Done, value, bad \cup rot.bad, ev \o Lend(rot.ev))

\* mutant: the head child borrows from a sibling that has nothing to spare
repair_head_lend_any(self, height, value) ==
    LET m2 == M \div 2
        pivots == AvSlice(self.pivots, self.len)
        child == self.head
        next_child == At(AvSlice(self.tail, self.len), 0)
        pivot == At(pivots, 0)
    IN IF Deref(next_child).len >= m2
       THEN rotated(self, 0,
                    rotate_left(height, Deref(child), pivot, Deref(next_child)),
                    value, {}, <<Event("rotate_left", height, 0)>>)
       ELSE LET tr == AvRemove(self.tail, self.len, 0)
                pr == AvRemove(self.pivots, self.len, 0)
                len == self.len - 1
                mg == merge_left(height, Deref(child), pr.out, Deref(tr.out))
            IN RemoveResult(Node(len, pr.xs, <<mg.node>>, tr.xs),
                            Outcome(len), value, mg.bad,
                            <<Event("merge_left", height, 0)>>)

\* NodeArray::remove, the head child underflowed: borrow from tail[0] or
\* merge with it
repair_head(self, height, value) ==
    LET m2 == M \div 2
        pivots == AvSlice(self.pivots, self.len)
        child == self.head
        next_child == At(AvSlice(self.tail, self.len), 0)
        pivot == At(pivots, 0)
        pre == Need(child # <<>> /\ next_child # <<>> /\ pivot # <<>>, "uninit")
    IN IF Deref(next_child).len > m2
       THEN rotated(self, 0,
                    rotate_left(height, Deref(child), pivot, Deref(next_child)),
                    value, pre, <<Event("rotate_left", height, 0)>>)
       ELSE LET tr == AvRemove(self.tail, self.len, 0)
                pr == AvRemove(self.pivots, self.len, 0)
                len == self.len - 1
                mg == merge_left(height, Deref(child), pr.out, Deref(tr.out))
            IN RemoveResult(Node(len, pr.xs, <<mg.node>>, tr.xs),
                            Outcome(len), value,
                            pre \cup mg.bad \cup Need(AvRemovePre(self.len, 0), "remove")
                                \cup Need(self.len >= 1, "sub:len"),
                            <<Event("merge_left", height, 0)>>)

\* mutant: the left sibling is asked to lend before the right one
repair_tail_left_first(self, height, index, value) ==
    LET m2 == M \div 2
        pivots == AvSlice(self.pivots, self.len)
        children == AvSlice(self.tail, self.len)
        child == At(children, index)
        next_child == At(children, index + 1)
        prev_child == IF index = 0 THEN self.head ELSE At(children, index - 1)
    IN IF Deref(prev_child).len > m2
       THEN rotated(self, index,
                    rotate_right(height, Deref(prev_child), At(pivots, index),
                                 Deref(child)),
                    value, {}, <<Event("rotate_right", height, index + 1)>>)
       ELSE IF index + 1 < self.len /\ Deref(next_child).len > m2
       THEN rotated(self, index + 1,
                    rotate_left(height, Deref(child), At(pivots, index + 1),
                                Deref(next_child)),
                    value, {}, <<Event("rotate_left", height, index + 1)>>)
       ELSE LET tr == AvRemove(self.tail, self.len, index)
                pr == AvRemove(self.pivots, self.len, index)
                len == self.len - 1
                self1 == Node(len, pr.xs, self.head, tr.xs)
                mg == merge_right(height, Deref(ChildrenGet(self1, index)), pr.out,
                                  Deref(tr.out))
            IN RemoveResult(ChildrenSet(self1, index, <<mg.node>>),
                            Outcome(len), value, {},
                            <<Event("merge_right", height, index + 1)>>)

\* mutant: when no sibling can lend, a child that has a right sibling is merged
\* with that one
repair_tail_merge_next(self, height, index, value) ==
    LET m2 == M \div 2
        pivots == AvSlice(self.pivots, self.len)
        children == AvSlice(self.tail, self.len)
        child == At(children, index)
        next_child == At(children, index + 1)
        prev_child == IF index = 0 THEN self.head ELSE At(children, index - 1)
    IN IF index + 1 < self.len /\ Deref(next_child).len > m2
       THEN rotated(self, index + 1,
                    rotate_left(height, Deref(child), At(pivots, index + 1),
                                Deref(next_child)),
                    value, {}, <<Event("rotate_left", height, index + 1)>>)
       ELSE IF Deref(prev_child).len > m2
       THEN rotated(self, index,
                    rotate_right(height, Deref(prev_child), At(pivots, index),
                                 Deref(child)),
                    value, {}, <<Event("rotate_right", height, index + 1)>>)
       ELSE LET at == IF index + 1 < self.len THEN index + 1 ELSE index
                tr == AvRemove(self.tail, self.len, at)
                pr == AvRemove(self.pivots, self.len, at)
                len == self.len - 1
                self1 == Node(len, pr.xs, self.head, tr.xs)
                mg == IF index + 1 < self.len
                      THEN merge_left(height, Deref(child), pr.out, Deref(tr.out))
                      ELSE merge_right(height, Deref(ChildrenGet(self1, index)),
                                       pr.out, Deref(tr.out))
            IN RemoveResult(ChildrenSet(self1, at, <<mg.node>>),
                            Outcome(len), value, {},
                            <<Event("merge_right", height, index + 1)>>)

\* NodeArray::remove, child tail[index] underflowed: borrow from the right
\* sibling, else from the left one, else merge with the left one
repair_tail(self, height, index, value) ==
    LET m2 == M \div 2
        pivots == AvSlice(self.pivots, self.len)
        children == AvSlice(self.tail, self.len)
        child == At(children, index)
        next_child == At(children, index + 1)
        prev_child == IF index = 0 THEN self.head ELSE At(children, index - 1)
        pre == Need(child # <<>> /\ prev_child # <<>>, "uninit")
    IN IF index + 1 < self.len /\ Deref(next_child).len > m2
       THEN rotated(self, index + 1,
                    rotate_left(height, Deref(child), At(pivots, index + 1),
                                Deref(next_child)),
                    value, pre \cup Need(next_child # <<>>, "uninit"),
                    <<Event("rotate_left", height, index + 1)>>)
       ELSE IF Deref(prev_child).len > m2
       THEN rotated(self, index,
                    rotate_right(height, Deref(prev_child), At(pivots, index),
                                 Deref(child)),
                    value, pre, <<Event("rotate_right", height, index + 1)>>)
       ELSE LET tr == AvRemove(self.tail, self.len, index)
                pr == AvRemove(self.pivots, self.len, index)
                len == self.len - 1
                self1 == Node(len, pr.xs, self.head, tr.xs)
                prev == ChildrenGet(self1, index)
                mg == merge_right(height, Deref(prev), pr.out, Deref(tr.out))
            IN RemoveResult(ChildrenSet(self1, index, <<mg.node>>),
                            Outcome(len), value,
                            pre \cup mg.bad
                                \cup Need(AvRemovePre(self.len, index), "remove")
                                \cup Need(self.len >= 1, "sub:len")
                                \cup Need(prev # <<>>, "uninit"),
                            <<Event("merge_right", height, index + 1)>>)

\* NodeArray::remove, the end: what the repair made of the node is returned;
\* the record of the repair keeps the node as the repair found it and as it
\* left it, and what the node reports; the calls the repair made follow it
repaired(self, rep, bad, ev) ==
    RemoveResult(rep.node, rep.res, rep.value, bad \cup rep.bad,
                 Append(ev, [e |-> rep.ev[1].e, h |-> rep.ev[1].h, i |-> rep.ev[1].i,
                             self |-> self, node |-> rep.node, res |-> rep.res])
                     \o Tail(rep.ev))

\* mutant: on a hit the pivot stays and what the child gave up is returned
remove_above_no_swap(self, height, index, hit, child, r) ==
    LET self1 == ChildrenSet(self, index, <<r.node>>)
        ev == IF hit
              THEN Append(r.ev, [e |-> "swap", h |-> height, i |-> index,
                                 self |-> self, node |-> self1, value |-> r.value])
              ELSE r.ev
    IN IF r.res = Absent
       THEN RemoveResult(self1, Absent, <<>>, {}, r.ev)
       ELSE IF r.res = Done
       THEN RemoveResult(self1, Done, r.value, {}, ev)
       ELSE repaired(self1,
                     IF index = 0
                     THEN repair_head(self1, height, r.value)
                     ELSE repair_tail(self1, height, index - 1, r.value),
                     {}, ev)

\* NodeArray::remove in an internal node, once the child has returned r; hit
\* tells that the probe met pivot number index, whose place the value that
\* came up takes; the record of that swap keeps the node as it was on entry
\* and as the swap left it
remove_above(self, height, index, hit, child, r) ==
    LET self1 == ChildrenSet(self, index, <<r.node>>)
        pre == r.bad \cup Need(child # <<>>, "uninit")
                     \cup Need(height >= 1, "sub:height")
    IN IF r.res = Absent
       THEN RemoveResult(self1, Absent, <<>>,
                         pre \cup Need(~hit, "empty_subtree"), r.ev)
       ELSE LET self2 == IF hit
                         THEN [self1 EXCEPT !.pivots[index + 1] = r.value]
                         ELSE self1
                value == IF hit THEN At(AvSlice(self.pivots, self.len), index)
                         ELSE r.value
                ev == IF hit
                      THEN Append(r.ev, [e |-> "swap", h |-> height, i |-> index,
                                         self |-> self, node |-> self2,
                                         value |-> value])
                      ELSE r.ev
            IN IF r.res = Done
               THEN RemoveResult(self2, Done, value, pre, ev)
               ELSE repaired(self2,
                             IF index = 0
                             THEN repair_head(self2, height, value)
                             ELSE repair_tail(self2, height, index - 1, value),
                             pre, ev)

\* mutant: in a leaf the index of a miss is used like the index of a hit
NodeRemoveAnyIndex(self, height, b) ==
    LET pivots == AvSlice(self.pivots, self.len)
        bs == binary_search(b, pivots, height)
        index == bs.idx
    IN IF height = 0
       THEN LET r == AvRemove(self.pivots, self.len, index)
                len == self.len - 1
            IN RemoveResult([self EXCEPT !.pivots = r.xs, !.len = len],
                            Outcome(len), r.out, {}, <<>>)
       ELSE remove_above(self, height, index, bs.ok, ChildrenGet(self, index),
                         NodeRemove(Deref(ChildrenGet(self, index)), height - 1,
                                    IF bs.ok THEN Last ELSE b))

\* NodeArray::remove
NodeRemove(self, height, b) ==
    LET pivots == AvSlice(self.pivots, self.len)
        bs == binary_search(b, pivots, height)
        index == bs.idx
    IN Visited(
         IF height = 0
         THEN IF ~bs.ok
              THEN RemoveResult(self, Absent, <<>>, {}, <<>>)
              ELSE LET r == AvRemove(self.pivots, self.len, index)
                       len == self.len - 1
                   IN RemoveResult([self EXCEPT !.pivots = r.xs, !.len = len],
                                   Outcome(len), r.out,
                                   Need(AvRemovePre(self.len, index), "remove")
                                       \cup Need(r.out # <<>>, "uninit")
                                       \cup Need(self.len >= 1, "sub:len"),
                                   <<>>)
         ELSE remove_above(self, height, index, bs.ok, ChildrenGet(self, index),
                           NodeRemove(Deref(ChildrenGet(self, index)), height - 1,
                                      IF bs.ok THEN Last ELSE b)),
         height)

-----------------------------------------------------------------------------
(* OkBTree<T>: Option<BTreeInner<T>>; depth is a NonZeroUsize, so depth 0 is None *)

NoTree == [depth |-> 0, node |-> <<>>]

Tree(depth, node) == [depth |-> depth, node |-> <<node>>]

\* mutant: the depth goes up whether the root split or not
grow_on_done(t, r) ==
    IF r.res = Propagate
    THEN [tree |-> Tree(t.depth + 1,
                        Node(1, AvPush(AvNew, 0, r.pivot), <<r.node>>,
                             AvPush(AvNew, 0, r.right))),
          bad |-> r.bad, ev |-> Append(r.ev, Event("grow", t.depth, 0))]
    ELSE [tree |-> Tree(t.depth + 1, r.node), bad |-> r.bad, ev |-> r.ev]

\* mutant: a root that did not split is not put back where it was taken from
grow_forget_root(t, r) ==
    IF r.res = Propagate
    THEN [tree |-> Tree(t.depth + 1,
                        Node(1, AvPush(AvNew, 0, r.pivot), <<r.node>>,
                             AvPush(AvNew, 0, r.right))),
          bad |-> r.bad, ev |-> Append(r.ev, Event("grow", t.depth, 0))]
    ELSE [tree |-> NoTree, bad |-> r.bad, ev |-> r.ev]

\* OkBTree::insert, once the root has returned r: a split of the root puts a
\* new root above the two halves
grow(t, r) ==
    IF r.res = Propagate
    THEN [tree |-> Tree(t.depth + 1,
                        Node(1, AvPush(AvNew, 0, r.pivot), <<r.node>>,
                             AvPush(AvNew, 0, r.right))),
          bad |-> r.bad \cup Need(AvPushPre(0), "push"),
          ev |-> Append(r.ev, Event("grow", t.depth, 0))]
    ELSE [tree |-> Tree(t.depth, r.node), bad |-> r.bad, ev |-> r.ev]

\* OkBTree::insert
TreeInsert(t, value) ==
    IF t.depth # 0
    THEN grow(t, NodeInsert(Deref(t.node), value, t.depth - 1))
    ELSE [tree |-> Tree(1, Node(1, AvPush(AvNew, 0, value), <<>>, AvNew)),
          bad |-> Need(AvPushPre(0), "push"),
          ev |-> <<Event("first", 0, 0)>>]

\* mutant: the tree is re-rooted and the depth is left as it was
shrink_keep_depth(t, r) ==
    IF r.res = Absent
    THEN [tree |-> Tree(t.depth, r.node), ret |-> <<>>, bad |-> r.bad, ev |-> r.ev]
    ELSE IF r.res = Underflow /\ r.node.len = 0 /\ t.depth > 1
    THEN [tree |-> [depth |-> t.depth, node |-> r.node.head],
          ret |-> r.value, bad |-> r.bad,
          ev |-> Append(r.ev, Event("shrink", t.depth, 0))]
    ELSE [tree |-> Tree(t.depth, r.node), ret |-> r.value, bad |-> r.bad, ev |-> r.ev]

\* mutant: a root left without a pivot gives way to its head child at any depth
shrink_any_depth(t, r) ==
    IF r.res = Absent
    THEN [tree |-> Tree(t.depth, r.node), ret |-> <<>>, bad |-> r.bad, ev |-> r.ev]
    ELSE IF r.res = Underflow /\ r.node.len = 0
    THEN [tree |-> [depth |-> t.depth - 1, node |-> r.node.head],
          ret |-> r.value, bad |-> r.bad,
          ev |-> Append(r.ev, Event("shrink", t.depth, 0))]
    ELSE [tree |-> Tree(t.depth, r.node), ret |-> r.value, bad |-> r.bad, ev |-> r.ev]

\* OkBTree::remove_inner, once the root has returned r: a root above the
\* leaves that is left without a pivot gives way to its head child
shrink(t, r) ==
    IF r.res = Absent
    THEN [tree |-> Tree(t.depth, r.node), ret |-> <<>>, bad |-> r.bad, ev |-> r.ev]
    ELSE IF r.res = Underflow /\ r.node.len = 0 /\ t.depth > 1
    THEN [tree |-> [depth |-> t.depth - 1, node |-> r.node.head],
          ret |-> r.value,
          bad |-> r.bad \cup Need(r.node.head # <<>>, "uninit")
                        \cup Need(t.depth >= 2, "sub:depth"),
          ev |-> Append(r.ev, Event("shrink", t.depth, 0))]
    ELSE [tree |-> Tree(t.depth, r.node), ret |-> r.value, bad |-> r.bad, ev |-> r.ev]

\* OkBTree::remove_inner: ret is <<>> for None
remove_inner(t, b) ==
    IF t.depth # 0
    THEN IF Deref(t.node).len = 0
         THEN [tree |-> t, ret |-> <<>>, bad |-> {}, ev |-> <<>>]
         ELSE shrink(t, NodeRemove(Deref(t.node), t.depth - 1, b))
    ELSE [tree |-> t, ret |-> <<>>, bad |-> {}, ev |-> <<>>]

\* OkBTree::get, first and last
TreeSearch(t, b) ==
    IF t.depth = 0 THEN <<>> ELSE NodeSearch(Deref(t.node), t.depth - 1, b).value

\* the calls of NodeArray::search that OkBTree::get, first and last lead to
TreeSearchLog(t, b) ==
    IF t.depth = 0 THEN <<>> ELSE NodeSearch(Deref(t.node), t.depth - 1, b).ev

-----------------------------------------------------------------------------
(* the state: the tree, and what the last call was given and returned *)

VARIABLES
    tree,     \* the OkBTree
    pre,      \* the tree before the last call
    last,     \* the last call: op, arg, ret, contracts broken, structural events,
              \* and the abstract set before it
    model,    \* the abstract set: the elements inserted and not removed since
    phase,    \* "any", or the stage of the insert-then-drain tests
    filled,   \* the abstract set when the drain began
    out,      \* the values the drain has returned so far
    twin,     \* a tree constructed afresh when the tree became an empty leaf
              \* root, given the same calls since, and what its last call returned
    slots     \* a slot array on its own: its slots and len, the last call on it
              \* and the call before that

vars == <<tree, pre, last, model, phase, filled, out, twin, slots>>

Call(op, arg, ret, bad, ev) ==
    [op |-> op, arg |-> arg, ret |-> ret, bad |-> bad, ev |-> ev, was |-> model]

\* no slot array on its own
NoSlots == <<>>

\* the twin before any call
NoTwin == [tree |-> NoTree, ret |-> <<>>]

\* no call is under way and no result is held
Idle == [op |-> "idle", arg |-> <<>>, ret |-> <<>>, bad |-> {}, ev |-> <<>>, was |-> {}]

MinOf(S) == CHOOSE e \in S : \A f \in S : e.k <= f.k
MaxOf(S) == CHOOSE e \in S : \A f \in S : e.k >= f.k

DoInsert(v) ==
    /\ last = Idle
    /\ \E r \in {TreeInsert(tree, <<v>>)} :
       /\ tree' = r.tree
       /\ pre' = tree
       /\ last' = Call("insert", <<v>>, <<>>, r.bad, r.ev)
       /\ model' = {e \in model : e.k # v.k} \cup {v}

DoRemoveBy(op, b, arg, gone) ==
    /\ last = Idle
    /\ \E r \in {remove_inner(tree, b)} :
       /\ tree' = r.tree
       /\ pre' = tree
       /\ last' = Call(op, arg, r.ret, r.bad, r.ev)
       /\ model' = model \ gone

DoSearch(op, b, arg) ==
    /\ last = Idle
    /\ last' = Call(op, arg, TreeSearch(tree, b), {}, TreeSearchLog(tree, b))
    /\ pre' = tree
    /\ UNCHANGED <<tree, model, slots>>

Init ==
    /\ tree = NoTree
    /\ pre = NoTree
    /\ last = Idle
    /\ model = {}
    /\ phase = "any"
    /\ filled = {}
    /\ out = <<>>
    /\ twin = NoTwin
    /\ slots = NoSlots

\* the caller has taken the result of the call and is ready for the next one
Return ==
    /\ last # Idle
    /\ last' = Idle
    /\ pre' = tree
    /\ UNCHANGED <<tree, model, phase, filled, out, twin, slots>>

Insert(v) == DoInsert(v) /\ UNCHANGED <<phase, filled, out, twin, slots>>

Remove(q) ==
    /\ DoRemoveBy("remove", Comp(q), <<q>>, {e \in model : e.k = q})
    /\ UNCHANGED <<phase, filled, out, twin, slots>>

RemoveFirst ==
    /\ DoRemoveBy("remove_first", First, <<>>,
                  IF model = {} THEN {} ELSE {MinOf(model)})
    /\ UNCHANGED <<phase, filled, out, twin, slots>>

RemoveLast ==
    /\ DoRemoveBy("remove_last", Last, <<>>,
                  IF model = {} THEN {} ELSE {MaxOf(model)})
    /\ UNCHANGED <<phase, filled, out, twin, slots>>

Get(q) == DoSearch("get", Comp(q), <<q>>) /\ UNCHANGED <<phase, filled, out, twin, slots>>

GetFirst == DoSearch("first", First, <<>>) /\ UNCHANGED <<phase, filled, out, twin, slots>>

GetLast == DoSearch("last", Last, <<>>) /\ UNCHANGED <<phase, filled, out, twin, slots>>

Next ==
    \/ \E k \in Keys : Insert(Elem(k, 0))
    \/ \E q \in Keys : Remove(q)
    \/ RemoveFirst
    \/ RemoveLast
    \/ \E q \in Keys : Get(q)
    \/ GetFirst
    \/ GetLast
    \/ Return

Spec == Init /\ [][Next]_vars


\* equal elements that can be told apart
NextEq ==
    \/ \E k \in EqKeys, t \in Tags : Insert(Elem(k, t))
    \/ \E q \in EqKeys : Remove(q)
    \/ RemoveFirst
    \/ RemoveLast
    \/ \E q \in EqKeys : Get(q)
    \/ GetFirst
    \/ GetLast
    \/ Return

SpecEq == Init /\ [][NextEq]_vars

-----------------------------------------------------------------------------
(* tests remove_first and remove_last: inserts, then the tree is drained from *)
(* one end until a call returns None                                          *)

InitDrain ==
    /\ tree = NoTree
    /\ pre = NoTree
    /\ last = Idle
    /\ model = {}
    /\ phase = "fill"
    /\ filled = {}
    /\ out = <<>>
    /\ twin = NoTwin
    /\ slots = NoSlots

Fill(v) ==
    /\ phase = "fill"
    /\ DoInsert(v)
    /\ UNCHANGED <<phase, filled, out, twin, slots>>

StartDrain(p) ==
    /\ phase = "fill"
    /\ last = Idle
    /\ phase' = p
    /\ filled' = model
    /\ pre' = tree
    /\ last' = Call("drain", <<>>, <<>>, {}, <<>>)
    /\ UNCHANGED <<tree, model, out, twin, slots>>

Draining == IF out = <<>> THEN TRUE ELSE out[Len(out)] # <<>>

DrainFirst ==
    /\ phase = "first"
    /\ Draining
    /\ DoRemoveBy("remove_first", First, <<>>,
                  IF model = {} THEN {} ELSE {MinOf(model)})
    /\ out' = Append(out, last'.ret)
    /\ UNCHANGED <<phase, filled, twin, slots>>

DrainLast ==
    /\ phase = "last"
    /\ Draining
    /\ DoRemoveBy("remove_last", Last, <<>>,
                  IF model = {} THEN {} ELSE {MaxOf(model)})
    /\ out' = Append(out, last'.ret)
    /\ UNCHANGED <<phase, filled, twin, slots>>

NextDrain ==
    \/ \E k \in Keys : Fill(Elem(k, 0))
    \/ \E p \in {"first", "last"} : StartDrain(p)
    \/ DrainFirst
    \/ DrainLast
    \/ Return

SpecDrain == InitDrain /\ [][NextDrain]_vars

-----------------------------------------------------------------------------
(* an empty leaf root beside no root: once the tree is left with an empty    *)
(* leaf root, a tree constructed afresh is given every call the tree is given *)

InitTwin ==
    /\ tree = NoTree
    /\ pre = NoTree
    /\ last = Idle
    /\ model = {}
    /\ phase = "one"
    /\ filled = {}
    /\ out = <<>>
    /\ twin = NoTwin
    /\ slots = NoSlots

Paired == phase = "two"

\* OkBTree::new beside a tree whose root is a leaf without pivots
Pair ==
    /\ phase = "one"
    /\ last = Idle
    /\ tree.depth = 1
    /\ Deref(tree.node).len = 0
    /\ phase' = "two"
    /\ twin' = NoTwin
    /\ pre' = tree
    /\ last' = Call("new", <<>>, <<>>, {}, <<>>)
    /\ UNCHANGED <<tree, model, filled, out, slots>>

TwinInsert(v) ==
    /\ DoInsert(v)
    /\ twin' = IF Paired
               THEN [tree |-> TreeInsert(twin.tree, <<v>>).tree, ret |-> <<>>]
               ELSE twin
    /\ UNCHANGED <<phase, filled, out, slots>>

\* the twin after a call that returned r
TwinOf(r) == [tree |-> r.tree, ret |-> r.ret]

\* the twin is given the call with probe b
TwinRemoveBy(b) ==
    twin' = IF Paired THEN TwinOf(remove_inner(twin.tree, b)) ELSE twin

TwinRemove(q) ==
    /\ DoRemoveBy("remove", Comp(q), <<q>>, {e \in model : e.k = q})
    /\ TwinRemoveBy(Comp(q))
    /\ UNCHANGED <<phase, filled, out, slots>>

TwinRemoveFirst ==
    /\ DoRemoveBy("remove_first", First, <<>>,
                  IF model = {} THEN {} ELSE {MinOf(model)})
    /\ TwinRemoveBy(First)
    /\ UNCHANGED <<phase, filled, out, slots>>

TwinRemoveLast ==
    /\ DoRemoveBy("remove_last", Last, <<>>,
                  IF model = {} THEN {} ELSE {MaxOf(model)})
    /\ TwinRemoveBy(Last)
    /\ UNCHANGED <<phase, filled, out, slots>>

\* the twin is given the lookup with probe b
TwinSearchBy(b) ==
    twin' = IF Paired
            THEN [tree |-> twin.tree, ret |-> TreeSearch(twin.tree, b)]
            ELSE twin

TwinGet(q) ==
    /\ DoSearch("get", Comp(q), <<q>>)
    /\ TwinSearchBy(Comp(q))
    /\ UNCHANGED <<phase, filled, out, slots>>

TwinGetFirst ==
    /\ DoSearch("first", First, <<>>)
    /\ TwinSearchBy(First)
    /\ UNCHANGED <<phase, filled, out, slots>>

TwinGetLast ==
    /\ DoSearch("last", Last, <<>>)
    /\ TwinSearchBy(Last)
    /\ UNCHANGED <<phase, filled, out, slots>>

\* the caller has taken both results and is ready for the next call
TwinReturn ==
    /\ last # Idle
    /\ last' = Idle
    /\ pre' = tree
    /\ twin' = [twin EXCEPT !.ret = <<>>]
    /\ UNCHANGED <<tree, model, phase, filled, out, slots>>

NextTwin ==
    \/ \E k \in Keys : TwinInsert(Elem(k, 0))
    \/ \E q \in Keys : TwinRemove(q)
    \/ TwinRemoveFirst
    \/ TwinRemoveLast
    \/ \E q \in Keys : TwinGet(q)
    \/ TwinGetFirst
    \/ TwinGetLast
    \/ Pair
    \/ TwinReturn

SpecTwin == InitTwin /\ [][NextTwin]_vars

-----------------------------------------------------------------------------
(* a DetachedArrayVec on its own: its first len slots hold elements in       *)
(* ascending order, as the pivots of a node do, and insert and remove are    *)
(* called on it at any index their preconditions allow                       *)

\* the slot arrays a node can hold: len elements in ascending order, then
\* slots that hold nothing
SlotArrays ==
    {a \in [xs : [1..M -> {<<>>} \cup {<<Elem(k, 0)>> : k \in Keys}], len : 0..M] :
        /\ \A j \in 1..M : a.xs[j] # <<>> <=> j <= a.len
        /\ \A j \in 1..(M - 1) : j < a.len => CellKey(a.xs[j]) < CellKey(a.xs[j + 1])}

NoSlotCall == [op |-> "none", index |-> 0, element |-> <<>>, before |-> <<>>]

\* a call as the next call remembers it
SlotCallOf(s) ==
    [op |-> s.op, index |-> s.index, element |-> s.element, before |-> s.before]

InitSlots ==
    /\ tree = NoTree
    /\ pre = NoTree
    /\ last = Idle
    /\ model = {}
    /\ phase = "slots"
    /\ filled = {}
    /\ out = <<>>
    /\ twin = NoTwin
    /\ \E a \in SlotArrays :
           slots = [xs |-> a.xs, len |-> a.len, op |-> "none", index |-> 0,
                    element |-> <<>>, out |-> <<>>, before |-> <<>>,
                    prior |-> NoSlotCall]

\* the element keeps the order of the slots when it goes in at index
SlotFits(s, index, element) ==
    /\ index > 0 => CellKey(s.xs[index]) < CellKey(element)
    /\ index < s.len => CellKey(element) < CellKey(s.xs[index + 1])

\* DetachedArrayVec::insert, and the len of the caller goes up
SlotInsert(index, element) ==
    /\ slots # NoSlots
    /\ AvInsertPre(slots.len, index)
    /\ SlotFits(slots, index, element)
    /\ slots' = [xs |-> AvInsert(slots.xs, slots.len, index, element),
                 len |-> slots.len + 1,
                 op |-> "insert", index |-> index, element |-> element,
                 out |-> <<>>,
                 before |-> [xs |-> slots.xs, len |-> slots.len],
                 prior |-> SlotCallOf(slots)]
    /\ UNCHANGED <<tree, pre, last, model, phase, filled, out, twin>>

\* DetachedArrayVec::remove, and the len of the caller goes down
SlotRemove(index) ==
    /\ slots # NoSlots
    /\ AvRemovePre(slots.len, index)
    /\ slots' = [xs |-> AvRemove(slots.xs, slots.len, index).xs,
                 len |-> slots.len - 1,
                 op |-> "remove", index |-> index, element |-> <<>>,
                 out |-> AvRemove(slots.xs, slots.len, index).out,
                 before |-> [xs |-> slots.xs, len |-> slots.len],
                 prior |-> SlotCallOf(slots)]
    /\ UNCHANGED <<tree, pre, last, model, phase, filled, out, twin>>

NextSlots ==
    \/ \E index \in 0..M, k \in Keys : SlotInsert(index, <<Elem(k, 0)>>)
    \/ \E index \in 0..M : SlotRemove(index)

SpecSlots == InitSlots /\ [][NextSlots]_vars

-----------------------------------------------------------------------------
(* what the properties observe *)

\* the in-order traversal: the cells of the pivots, children 0..len in between
RECURSIVE InOrder(_, _)
RECURSIVE InOrderFrom(_, _, _)
InOrder(node, height) ==
    IF height = 0 THEN AvSlice(node.pivots, node.len)
    ELSE InOrder(Deref(node.head), height - 1) \o InOrderFrom(node, height, 1)

InOrderFrom(node, height, i) ==
    IF i > node.len \/ i > M THEN <<>>
    ELSE <<node.pivots[i]>> \o InOrder(Deref(node.tail[i]), height - 1)
             \o InOrderFrom(node, height, i + 1)

Contents(t) == IF t.depth = 0 THEN <<>> ELSE InOrder(Deref(t.node), t.depth - 1)

\* child number i of a node: head, then tail[0], tail[1], ...
Kid(node, i) == IF i = 0 THEN node.head ELSE IF i \in 1..M THEN node.tail[i] ELSE <<>>

\* the nodes of a subtree, each with its height
RECURSIVE SubNodes(_, _)
SubNodes(node, height) ==
    {[n |-> node, h |-> height]} \cup
    (IF height = 0 THEN {}
     ELSE UNION {SubNodes(Deref(Kid(node, i)), height - 1) : i \in 0..node.len})

Nodes(t) == IF t.depth = 0 THEN {} ELSE SubNodes(Deref(t.node), t.depth - 1)

NonRootNodes(t) ==
    IF t.depth <= 1 THEN {}
    ELSE UNION {SubNodes(Deref(Kid(Deref(t.node), i)), t.depth - 2) :
                    i \in 0..Deref(t.node).len}

Childless(node) == node.head = <<>> /\ \A i \in 1..M : node.tail[i] = <<>>

\* the distances from the root at which a node without children is met
RECURSIVE LeafDepths(_, _)
LeafDepths(node, d) ==
    IF Childless(node) THEN {d}
    ELSE UNION {LeafDepths(Deref(c), d + 1) :
                    c \in ({node.head} \cup {node.tail[i] : i \in 1..M}) \ {<<>>}}

KeysOf(cells) == {CellKey(cells[i]) : i \in 1..Len(cells)}

Ascending(cells) ==
    /\ \A i \in 1..Len(cells) : cells[i] # <<>>
    /\ \A i \in 1..(Len(cells) - 1) : CellKey(cells[i]) < CellKey(cells[i + 1])

RECURSIVE SortedCells(_)
SortedCells(S) ==
    IF S = {} THEN <<>> ELSE <<<<MinOf(S)>>>> \o SortedCells(S \ {MinOf(S)})

Reverse(sq) == [i \in 1..Len(sq) |-> sq[Len(sq) + 1 - i]]

\* the element of S with key q, as a cell
Found(S, q) == IF \E e \in S : e.k = q THEN <<CHOOSE e \in S : e.k = q>> ELSE <<>>

HasEvent(e, h) == \E i \in 1..Len(last.ev) : last.ev[i].e = e /\ last.ev[i].h = h

Mutating == last.op \in {"insert", "remove", "remove_first", "remove_last"}

-----------------------------------------------------------------------------
(* the properties *)

\* C1: after any interleaving of insert, remove, remove_first and remove_last,
\* get(q) returns the stored element equal to q exactly when q is in the
\* abstract set, and none for every other key; a get call returns just that.
C1_GetRefinesSet ==
    /\ \A q \in 0..(MaxKey + 1) : TreeSearch(tree, Comp(q)) = Found(model, q)
    /\ last.op = "get" => last.ret = Found(last.was, last.arg[1])

\* a get of a key stored as a pivot of the root of a tree of depth 3, while
\* some other key is absent
C1_Witness ==
    /\ last.op = "get"
    /\ last.ret # <<>>
    /\ tree.depth = 3
    /\ CellKey(last.ret) \in KeysOf(AvSlice(Deref(tree.node).pivots, Deref(tree.node).len))
    /\ Cardinality(model) < MaxKey

\* C2: after every public operation the in-order traversal is strictly
\* ascending: in every node the pivots ascend strictly, and in every internal
\* node everything in child i is below pivot i, which is below everything in
\* child i + 1.
C2_Ordered ==
    /\ Ascending(Contents(tree))
    /\ \A x \in Nodes(tree) :
          /\ Ascending(AvSlice(x.n.pivots, x.n.len))
          /\ x.h > 0 =>
                \A i \in 0..(x.n.len - 1) :
                    /\ \A k \in KeysOf(InOrder(Deref(Kid(x.n, i)), x.h - 1)) :
                           k < CellKey(AvSlot(x.n.pivots, i))
                    /\ \A k \in KeysOf(InOrder(Deref(Kid(x.n, i + 1)), x.h - 1)) :
                           CellKey(AvSlot(x.n.pivots, i)) < k

\* a remove that rotated right between two internal nodes
C2_Witness ==
    /\ last.op = "remove"
    /\ HasEvent("rotate_right", 2)
    /\ tree.depth = 3

\* C3: after every public operation every leaf is at the same distance from
\* the root, and that distance is the stored depth: going down with
\* height = depth - 1, less one per level, height 0 is reached exactly at the
\* nodes without children.
C3_Balanced ==
    /\ tree.depth = 0 <=> tree.node = <<>>
    /\ tree.depth # 0 => LeafDepths(Deref(tree.node), 1) = {tree.depth}
    /\ \A x \in Nodes(tree) : x.h = 0 <=> Childless(x.n)

\* a remove that emptied the root of a tree of depth 3 and re-rooted the tree
C3_Witness ==
    /\ Mutating
    /\ HasEvent("shrink", 3)
    /\ tree.depth = 2

\* C4: after every public operation every node but the root has between M/2 and
\* M pivots, and the root has between 1 and M when the tree holds an element;
\* a root above the leaves never has 0 pivots.
C4_Fanout ==
    /\ \A x \in NonRootNodes(tree) : x.n.len >= M \div 2 /\ x.n.len <= M
    /\ tree.depth # 0 =>
          /\ Deref(tree.node).len <= M
          /\ (model # {} \/ Contents(tree) # <<>>) => Deref(tree.node).len >= 1
          /\ tree.depth > 1 => Deref(tree.node).len >= 1

\* a remove whose merge left an internal node below the root to be repaired,
\* in a tree that stays at depth 3
C4_Witness ==
    /\ last.op \in {"remove", "remove_first", "remove_last"}
    /\ HasEvent("merge_right", 1)
    /\ HasEvent("rotate_left", 2)
    /\ tree.depth = 3

\* C5: after every public operation every internal node with len pivots has
\* exactly len + 1 initialised children, head and tail[0..len), and a leaf has
\* no initialised child.
C5_Children ==
    \A x \in Nodes(tree) :
        IF x.h > 0
        THEN /\ x.n.head # <<>>
             /\ \A i \in 1..M : x.n.tail[i] # <<>> <=> i <= x.n.len
        ELSE Childless(x.n)

\* a remove that merged two internal nodes, children included, into the node
\* that is now the root
C5_Witness ==
    /\ last.op \in {"remove", "remove_first", "remove_last"}
    /\ HasEvent("merge_right", 2)
    /\ tree.depth = 2
    /\ Deref(tree.node).len = M


\* every node's pivot count, and the same for each of its children
RECURSIVE ShapeOf(_, _)
ShapeOf(node, height) ==
    [len  |-> node.len,
     head |-> node.head # <<>>,
     tail |-> [i \in 1..M |-> node.tail[i] # <<>>],
     kids |-> IF height = 0 THEN <<>>
              ELSE [i \in 1..(node.len + 1) |->
                       ShapeOf(Deref(Kid(node, i - 1)), height - 1)]]

Shape(t) == IF t.depth = 0 THEN <<>> ELSE ShapeOf(Deref(t.node), t.depth - 1)

\* C6: insert(k) of a key the tree holds leaves the number of elements, the
\* depth and the shape of the tree unchanged; inserting the very element the
\* tree holds leaves the tree as it was.
C6_InsertPresent ==
    (last.op = "insert" /\ Found(last.was, CellKey(last.arg)) # <<>>) =>
        /\ Len(Contents(tree)) = Len(Contents(pre))
        /\ tree.depth = pre.depth
        /\ Shape(tree) = Shape(pre)
        /\ KeysOf(Contents(tree)) = KeysOf(Contents(pre))
        /\ last.arg = Found(last.was, CellKey(last.arg)) => tree = pre

\* an insert of a key that is a pivot of the root of a tree of depth 3
C6_Witness ==
    /\ last.op = "insert"
    /\ Found(last.was, CellKey(last.arg)) # <<>>
    /\ pre.depth = 3
    /\ CellKey(last.arg) \in KeysOf(AvSlice(Deref(pre.node).pivots, Deref(pre.node).len))

\* C7: insert(v) replaces on equal: afterwards a lookup with an equal probe
\* returns v itself, and the tree holds exactly one element equal to v.
C7_ReplaceOnEqual ==
    last.op = "insert" =>
        /\ TreeSearch(tree, Comp(CellKey(last.arg))) = last.arg
        /\ Cardinality({i \in 1..Len(Contents(tree)) :
                           CellKey(Contents(tree)[i]) = CellKey(last.arg)}) = 1

\* an insert over an equal element that differs from it and is a pivot of the
\* root of a tree of depth 2
C7_Witness ==
    /\ last.op = "insert"
    /\ Found(last.was, CellKey(last.arg)) # <<>>
    /\ Found(last.was, CellKey(last.arg)) # last.arg
    /\ pre.depth = 2
    /\ CellKey(last.arg) \in KeysOf(AvSlice(Deref(pre.node).pivots, Deref(pre.node).len))

\* C8: first() returns the least and last() the greatest stored element, both
\* none exactly when the tree holds no element, with no root or with an empty
\* leaf as root; neither changes the tree.
C8_FirstLast ==
    /\ TreeSearch(tree, First) = (IF model = {} THEN <<>> ELSE <<MinOf(model)>>)
    /\ TreeSearch(tree, Last) = (IF model = {} THEN <<>> ELSE <<MaxOf(model)>>)
    /\ TreeSearch(tree, First) = <<>> <=> Contents(tree) = <<>>
    /\ TreeSearch(tree, Last) = <<>> <=> Contents(tree) = <<>>
    /\ last.op = "first" =>
          /\ last.ret = (IF last.was = {} THEN <<>> ELSE <<MinOf(last.was)>>)
          /\ tree = pre
    /\ last.op = "last" =>
          /\ last.ret = (IF last.was = {} THEN <<>> ELSE <<MaxOf(last.was)>>)
          /\ tree = pre

\* a last() on a tree of depth 3
C8_Witness ==
    /\ last.op = "last"
    /\ last.ret # <<>>
    /\ tree.depth = 3

\* C9: after inserts that leave N distinct elements, N calls of remove_first
\* return the elements in strictly ascending order, each call removing just the
\* least element; the next call returns none and the tree holds no element.
C9_DrainFirst ==
    phase = "first" =>
        LET n == Cardinality(filled)
            want == SortedCells(filled)
        IN /\ Len(out) <= n + 1
           /\ \A i \in 1..Len(out) : out[i] = IF i <= n THEN want[i] ELSE <<>>
           /\ Contents(tree) = SubSeq(want, Len(out) + 1, n)
           /\ Ascending(SubSeq(out, 1, IF Len(out) <= n THEN Len(out) ELSE n))

\* every key was inserted, and the drain has gone through to the none
C9_Witness ==
    /\ phase = "first"
    /\ Cardinality(filled) = MaxKey
    /\ Len(out) = MaxKey + 1
    /\ out[Len(out)] = <<>>

\* C10: after inserts that leave N distinct elements, N calls of remove_last
\* return the elements in strictly descending order, each call removing just
\* the greatest element; the next call returns none and the tree holds no
\* element.
C10_DrainLast ==
    phase = "last" =>
        LET n == Cardinality(filled)
            want == Reverse(SortedCells(filled))
        IN /\ Len(out) <= n + 1
           /\ \A i \in 1..Len(out) : out[i] = IF i <= n THEN want[i] ELSE <<>>
           /\ Contents(tree) = Reverse(SubSeq(want, Len(out) + 1, n))
           /\ Ascending(Reverse(SubSeq(out, 1, IF Len(out) <= n THEN Len(out) ELSE n)))

\* every key was inserted, and the drain has gone through to the none
C10_Witness ==
    /\ phase = "last"
    /\ Cardinality(filled) = MaxKey
    /\ Len(out) = MaxKey + 1
    /\ out[Len(out)] = <<>>

\* the elements a sequence of cells holds
CellsOf(cells) == {cells[i] : i \in 1..Len(cells)}

\* the pivots of the nodes above the leaves
InnerKeys(t) ==
    UNION {KeysOf(AvSlice(x.n.pivots, x.n.len)) : x \in {y \in Nodes(t) : y.h > 0}}

\* C11: remove(k) of a key the tree holds returns the stored element equal to
\* k, and afterwards the tree holds exactly what it held before less that
\* element, each element once, whether k was in a leaf or a pivot of an
\* internal node.
C11_RemovePresent ==
    (last.op = "remove" /\ last.arg[1] \in KeysOf(Contents(pre))) =>
        /\ last.ret # <<>>
        /\ CellKey(last.ret) = last.arg[1]
        /\ last.ret \in CellsOf(Contents(pre))
        /\ CellsOf(Contents(tree)) = CellsOf(Contents(pre)) \ {last.ret}
        /\ Len(Contents(tree)) = Len(Contents(pre)) - 1
        /\ Ascending(Contents(tree))
        /\ last.ret = Found(last.was, last.arg[1])

\* a remove of a key that was a pivot of an internal node below the root
C11_Witness ==
    /\ last.op = "remove"
    /\ last.ret # <<>>
    /\ pre.depth = 3
    /\ \E x \in NonRootNodes(pre) :
           x.h = 1 /\ last.arg[1] \in KeysOf(AvSlice(x.n.pivots, x.n.len))

\* a remove of a key that was in a leaf of a tree of depth 3
C11_WitnessLeaf ==
    /\ last.op = "remove"
    /\ last.ret # <<>>
    /\ pre.depth = 3
    /\ last.arg[1] \notin InnerKeys(pre)

\* C12: remove(k) of a key the tree does not hold returns none and leaves the
\* tree as it was, at every level; so do get(k), and remove_first and
\* remove_last on a tree that holds no element.
C12_MissUnchanged ==
    /\ (last.op = "remove" /\ last.arg[1] \notin KeysOf(Contents(pre))) =>
           last.ret = <<>> /\ tree = pre
    /\ (last.op \in {"remove_first", "remove_last"} /\ Contents(pre) = <<>>) =>
           last.ret = <<>> /\ tree = pre
    /\ (last.op \in {"remove", "remove_first", "remove_last"} /\ last.ret = <<>>) =>
           tree = pre
    /\ last.op = "get" =>
           /\ tree = pre
           /\ last.arg[1] \notin KeysOf(Contents(pre)) => last.ret = <<>>

\* a remove of a key that a tree of depth 3 does not hold
C12_Witness ==
    /\ last.op = "remove"
    /\ last.ret = <<>>
    /\ pre.depth = 3
    /\ tree = pre

\* C13: removing the last element of a tree of depth 1 leaves a leaf root
\* without pivots at depth 1; from then on that tree and a tree constructed
\* afresh, given the same calls, return the same from every get, first, last,
\* remove, remove_first and remove_last, and hold the same elements after
\* every insert.
C13_EmptyRootTwin ==
    /\ (Mutating /\ last.op # "insert" /\ pre.depth = 1 /\ Deref(pre.node).len = 1
            /\ last.ret # <<>>) =>
           tree.depth = 1 /\ Deref(tree.node).len = 0
    /\ Paired =>
           /\ last.op \notin {"idle", "new"} => last.ret = twin.ret
           /\ Contents(tree) = Contents(twin.tree)
           /\ \A q \in 0..(MaxKey + 1) :
                  TreeSearch(tree, Comp(q)) = TreeSearch(twin.tree, Comp(q))
           /\ TreeSearch(tree, First) = TreeSearch(twin.tree, First)
           /\ TreeSearch(tree, Last) = TreeSearch(twin.tree, Last)

\* the tree still has its empty leaf root and the twin still has no root, both
\* having been asked for their last element
C13_Witness ==
    /\ Paired
    /\ last.op = "remove_last"
    /\ tree.depth = 1
    /\ Deref(tree.node).len = 0
    /\ twin.tree = NoTree
    /\ tree # twin.tree

\* the pair has grown to depth 3 and a remove has re-rooted both
C13_WitnessDeep ==
    /\ Paired
    /\ HasEvent("shrink", 3)
    /\ last.ret # <<>>
    /\ last.ret = twin.ret

\* the probes the public operations search with
Probes == {First, Last} \cup {Comp(q) : q \in 0..(MaxKey + 1)}

\* C14: no contract is broken: every call of push, pop, insert, remove and
\* split_off made by an operation met its precondition and no empty slot was
\* read; in every node the slots [0, len) hold values, len is at most M, a
\* node above the leaves has its head and len tail children, and every probe
\* indexes within them.
C14_NoContractBroken ==
    /\ last.bad = {}
    /\ \A x \in Nodes(tree) :
          /\ x.n.len \in 0..M
          /\ \A i \in 1..M : x.n.pivots[i] # <<>> <=> i <= x.n.len
          /\ x.h > 0 => x.n.head # <<>> /\ \A i \in 1..x.n.len : x.n.tail[i] # <<>>
          /\ \A b \in Probes :
                LET bs == binary_search(b, AvSlice(x.n.pivots, x.n.len), x.h)
                IN /\ bs.idx \in 0..x.n.len
                   /\ bs.ok => bs.idx < x.n.len
    /\ (last.op \in {"remove_first", "remove_last"} /\ Contents(pre) # <<>>) =>
           last.ret # <<>>

\* a remove that merged the head child of the root with its neighbour, both
\* internal nodes, so that children were pushed as well
C14_Witness ==
    /\ last.op \in {"remove", "remove_first", "remove_last"}
    /\ HasEvent("merge_left", 2)
    /\ pre.depth = 3

-----------------------------------------------------------------------------
(* the repairs of an operation: each record holds the parent as the repair   *)
(* found it (self), as it left it (node), the height h of the parent and the *)
(* number i of the child that underflowed                                    *)

Repairs ==
    {last.ev[j] : j \in {n \in 1..Len(last.ev) :
         last.ev[n].e \in {"rotate_left", "rotate_right", "merge_left", "merge_right"}}}

Merges == {ev \in Repairs : ev.e \in {"merge_left", "merge_right"}}

KidLen(node, j) == Deref(Kid(node, j)).len

KidOrder(node, height, j) == InOrder(Deref(Kid(node, j)), height - 1)

\* child number j of the parent exists and has a pivot to spare
CanLend(ev, j) == j \in 0..ev.self.len /\ KidLen(ev.self, j) > M \div 2

\* children a and a + 1 of the parent and the pivot between them became
\* child a
MergedAt(ev, a) ==
    /\ a \in 0..(ev.self.len - 1)
    /\ ev.node.len = ev.self.len - 1
    /\ KidLen(ev.node, a) = M
    /\ KidOrder(ev.node, ev.h, a) =
           KidOrder(ev.self, ev.h, a) \o <<ev.self.pivots[a + 1]>>
               \o KidOrder(ev.self, ev.h, a + 1)

\* C15 as stated: a child that underflowed and is merged is merged with its
\* right neighbour if it has one, and with its left neighbour only when it is
\* the last child.
C15_MergeRightFirst ==
    \A ev \in Merges :
        IF ev.i < ev.self.len THEN MergedAt(ev, ev.i) ELSE MergedAt(ev, ev.i - 1)

\* C15, amended: a child that underflowed and is merged is merged with its
\* left neighbour if it has one, and with its right neighbour only when it is
\* the first child; no neighbour could lend.
C15_MergeLeftFirst ==
    \A ev \in Merges :
        /\ IF ev.i > 0 THEN MergedAt(ev, ev.i - 1) ELSE MergedAt(ev, ev.i)
        /\ ~CanLend(ev, ev.i - 1)
        /\ ~CanLend(ev, ev.i + 1)
        /\ KidLen(ev.self, ev.i) = M \div 2 - 1

\* a merge of a child that has a neighbour on either side
C15_Witness ==
    \E ev \in Merges : ev.i > 0 /\ ev.i < ev.self.len /\ MergedAt(ev, ev.i - 1)

\* between the repair's two views of the parent, one pivot went from child
\* number from to child number to, through the parent
Lent(ev, from, to) ==
    /\ ev.node.len = ev.self.len
    /\ KidLen(ev.node, from) = KidLen(ev.self, from) - 1
    /\ KidLen(ev.node, to) = KidLen(ev.self, to) + 1
    /\ \A j \in 0..ev.self.len :
           j \notin {from, to} => Kid(ev.node, j) = Kid(ev.self, j)
    /\ InOrder(ev.node, ev.h) = InOrder(ev.self, ev.h)

\* C16: a child number i that underflowed is repaired by a rotate-left from
\* child i + 1 whenever that one exists and has more than M/2 pivots, also
\* when child i - 1 could lend too; otherwise by a rotate-right from child
\* i - 1 if that one exists and has more than M/2 pivots; and by a merge only
\* when no neighbour that exists has more than M/2 pivots.
C16_RotateRightFirst ==
    \A ev \in Repairs :
        /\ ev.h > 0
        /\ ev.i \in 0..ev.self.len
        /\ KidLen(ev.self, ev.i) = M \div 2 - 1
        /\ IF CanLend(ev, ev.i + 1)
           THEN ev.e = "rotate_left" /\ Lent(ev, ev.i + 1, ev.i)
           ELSE IF CanLend(ev, ev.i - 1)
           THEN ev.e = "rotate_right" /\ Lent(ev, ev.i - 1, ev.i)
           ELSE ev \in Merges /\ ev.node.len = ev.self.len - 1

\* a child between two neighbours that could both lend borrowed from the
\* right one
C16_Witness ==
    \E ev \in Repairs :
        /\ CanLend(ev, ev.i + 1)
        /\ CanLend(ev, ev.i - 1)
        /\ Lent(ev, ev.i + 1, ev.i)

\* a child with no right neighbour borrowed from the left one
C16_WitnessLeft ==
    \E ev \in Repairs :
        /\ ev.i = ev.self.len
        /\ ev.h = 2
        /\ Lent(ev, ev.i - 1, ev.i)

-----------------------------------------------------------------------------
(* the splits of an insert: each record holds the full node as it was (self), *)
(* the value and the child that were to go in at index i, and the left node,  *)
(* the median and the right node that came of it                              *)

Splits == {last.ev[j] : j \in {n \in 1..Len(last.ev) : last.ev[n].e = "split"}}

\* the sequence sq with x put in before its element number i, counted from 0
PutIn(sq, i, x) == SubSeq(sq, 1, i) \o <<x>> \o SubSeq(sq, i + 1, Len(sq))

\* head and the first len tail children, in order
KidsOf(node) == <<node.head>> \o AvSlice(node.tail, node.len)

\* C17: whenever insert splits a full node, at any index 0..M, a leaf or an
\* internal node, the old node and the new right node end with M/2 pivots each
\* (and M/2 + 1 children each if internal, none if a leaf); left pivots,
\* median and right pivots are the M pivots the node had with the incoming
\* value at its index, strictly ascending, and the children of the two nodes
\* are the M + 1 children the node had with the incoming child behind the
\* incoming value; the subtrees are in order around the median.
C17_Split ==
    \A ev \in Splits :
        LET m2 == M \div 2
            right == Deref(ev.right)
        IN /\ ev.self.len = M
           /\ ev.i \in 0..M
           /\ ev.right # <<>>
           /\ ev.pivot # <<>>
           /\ ev.left.len = m2
           /\ right.len = m2
           /\ \A j \in 1..M : ev.left.pivots[j] # <<>> <=> j <= m2
           /\ \A j \in 1..M : right.pivots[j] # <<>> <=> j <= m2
           /\ AvSlice(ev.left.pivots, m2) \o <<ev.pivot>> \o AvSlice(right.pivots, m2)
                  = PutIn(AvSlice(ev.self.pivots, M), ev.i, ev.value)
           /\ Ascending(InOrder(ev.left, ev.h) \o <<ev.pivot>> \o InOrder(right, ev.h))
           /\ IF ev.h > 0
              THEN /\ ev.child # <<>>
                   /\ KidsOf(ev.left) \o KidsOf(right)
                          = PutIn(KidsOf(ev.self), ev.i + 1, ev.child)
                   /\ \A j \in 1..M : ev.left.tail[j] # <<>> <=> j <= m2
                   /\ \A j \in 1..M : right.tail[j] # <<>> <=> j <= m2
                   /\ ev.left.head # <<>> /\ right.head # <<>>
              ELSE ev.child = <<>> /\ Childless(ev.left) /\ Childless(right)

\* an insert that split a leaf and then the internal node above it, the
\* internal node at an index below the median
C17_Witness ==
    /\ \E ev \in Splits : ev.h = 1 /\ ev.i < M \div 2
    /\ \E ev \in Splits : ev.h = 0

\* splits of an internal node at the median and above it, and of a leaf at
\* each index
C17_WitnessMid == \E ev \in Splits : ev.h = 1 /\ ev.i = M \div 2
C17_WitnessHigh == \E ev \in Splits : ev.h = 1 /\ ev.i = M
C17_WitnessLeafLow == \E ev \in Splits : ev.h = 0 /\ ev.i = 0
C17_WitnessLeafMid == \E ev \in Splits : ev.h = 0 /\ ev.i = M \div 2
C17_WitnessLeafHigh == \E ev \in Splits : ev.h = 0 /\ ev.i = M

\* the sequence sq without its element number i, counted from 0
TakeOut(sq, i) == SubSeq(sq, 1, i) \o SubSeq(sq, i + 2, Len(sq))

\* children a and a + 1 of the parent were merged into child a: the merged
\* node is the left one, the pivot between them and the right one, in that
\* order, and the parent lost that pivot and one child slot
MergedInto(ev, a) ==
    LET l == Deref(Kid(ev.self, a))
        r == Deref(Kid(ev.self, a + 1))
        m == Deref(Kid(ev.node, a))
    IN /\ l.len + r.len + 1 = M
       /\ m.len = M
       /\ AvSlice(m.pivots, M) =
              AvSlice(l.pivots, l.len) \o <<ev.self.pivots[a + 1]>>
                  \o AvSlice(r.pivots, r.len)
       /\ \A j \in 1..M : m.pivots[j] # <<>>
       /\ IF ev.h > 1
          THEN /\ KidsOf(m) = KidsOf(l) \o KidsOf(r)
               /\ Len(KidsOf(m)) = M + 1
               /\ \A j \in 1..(M + 1) : KidsOf(m)[j] # <<>>
          ELSE Childless(m)
       /\ ev.node.len = ev.self.len - 1
       /\ AvSlice(ev.node.pivots, ev.node.len) =
              TakeOut(AvSlice(ev.self.pivots, ev.self.len), a)
       /\ KidsOf(ev.node) =
              SubSeq(KidsOf(ev.self), 1, a) \o <<Kid(ev.node, a)>>
                  \o SubSeq(KidsOf(ev.self), a + 3, ev.self.len + 1)
       /\ \A j \in (ev.node.len + 1)..M :
              ev.node.pivots[j] = <<>> /\ ev.node.tail[j] = <<>>

\* C18: whenever remove merges a child that underflowed with a neighbour, the
\* merged node has exactly M pivots: those of the left node, the separating
\* pivot, those of the right node, in that order (and, above the leaves, the
\* children of the left node and then of the right node, M + 1 of them); the
\* parent loses just the separating pivot and one child slot, and its len
\* goes down by one.
C18_Merge ==
    \A ev \in Merges :
        \E a \in {ev.i - 1, ev.i} \cap (0..(ev.self.len - 1)) : MergedInto(ev, a)

\* a merge of two internal nodes, the left one having underflowed
C18_Witness ==
    \E ev \in Merges : ev.h = 2 /\ ev.i = 0 /\ MergedInto(ev, 0)

\* a merge of two internal nodes, the right one having underflowed, and a
\* merge of two leaves
C18_WitnessRight == \E ev \in Merges : ev.h = 2 /\ ev.i > 0 /\ MergedInto(ev, ev.i - 1)
C18_WitnessLeaf == \E ev \in Merges : ev.h = 1 /\ ev.self.len = M

-----------------------------------------------------------------------------
(* the swap of a remove that met a pivot above the leaves: the record holds   *)
(* the node as remove entered it (self) and as the swap left it, before any   *)
(* repair of the child (node), the number i of the pivot and the value handed *)
(* to the caller                                                              *)

Swaps == {last.ev[j] : j \in {n \in 1..Len(last.ev) : last.ev[n].e = "swap"}}

\* C19: when remove meets its key at pivot i of an internal node, the value
\* handed to the caller is that pivot itself, and the swap leaves in slot i
\* the in-order predecessor: the greatest element of the subtree of child i,
\* which that subtree has lost and nothing else; the rest of the node is as
\* it was.
C19_PredecessorSwap ==
    /\ \A sw \in Swaps :
          LET was == KidOrder(sw.self, sw.h, sw.i)
          IN /\ sw.h > 0
             /\ last.op = "remove"
             /\ CellKey(sw.self.pivots[sw.i + 1]) = last.arg[1]
             /\ sw.value = sw.self.pivots[sw.i + 1]
             /\ last.ret = sw.value
             /\ was # <<>>
             /\ sw.node.pivots[sw.i + 1] = was[Len(was)]
             /\ \A j \in 1..Len(was) : CellKey(was[j]) <= CellKey(was[Len(was)])
             /\ KidOrder(sw.node, sw.h, sw.i) = SubSeq(was, 1, Len(was) - 1)
             /\ sw.node.len = sw.self.len
             /\ \A j \in 0..sw.self.len : j # sw.i => Kid(sw.node, j) = Kid(sw.self, j)
             /\ \A j \in 1..M : j # sw.i + 1 => sw.node.pivots[j] = sw.self.pivots[j]
    /\ (last.op = "remove" /\ last.arg[1] \in InnerKeys(pre)) => Cardinality(Swaps) = 1

\* a remove that met its key in the root of a tree of depth 3, took the
\* predecessor from a leaf two levels down, and left that leaf underflowed
C19_Witness ==
    /\ \E sw \in Swaps : sw.h = 2
    /\ Repairs # {}
    /\ pre.depth = 3

-----------------------------------------------------------------------------

Removing == last.op \in {"remove", "remove_first", "remove_last"}

\* the probe of the last call
ProbeOf(call) ==
    CASE call.op = "remove" -> Comp(call.arg[1])
      [] call.op = "remove_first" -> First
      [] call.op = "remove_last" -> Last

\* what the root returned to the last call
RootRemoved == NodeRemove(Deref(pre.node), pre.depth - 1, ProbeOf(last))

\* C20: a remove, remove_first or remove_last leaves the depth as it was or
\* one less; it is one less, with the head child of the root as the new root,
\* exactly when the root returned Underflow, is left with no pivot and the
\* depth was above 1; while there is a root the depth stays at least 1.
C20_DepthOnRemove ==
    Removing =>
        /\ tree.depth \in {pre.depth, pre.depth - 1}
        /\ pre.depth >= 1 => tree.depth >= 1 /\ tree.node # <<>>
        /\ pre.depth = 0 => tree = pre
        /\ (pre.depth >= 1 /\ Deref(pre.node).len = 0) => tree = pre
        /\ (pre.depth >= 1 /\ Deref(pre.node).len > 0) =>
              LET r == RootRemoved
                  drop == r.res = Underflow /\ r.node.len = 0 /\ pre.depth > 1
              IN /\ tree.depth = pre.depth - 1 <=> drop
                 /\ HasEvent("shrink", pre.depth) <=> drop
                 /\ tree.node = IF drop THEN r.node.head ELSE <<r.node>>

\* a remove that took the only pivot of a root above the leaves; a remove
\* that took the only pivot of a leaf root
C20_Witness ==
    /\ Removing
    /\ pre.depth = 2
    /\ tree.depth = 1
    /\ Deref(tree.node).len = M

C20_WitnessLeafRoot ==
    /\ Removing
    /\ pre.depth = 1
    /\ last.ret # <<>>
    /\ tree.depth = 1
    /\ Deref(tree.node).len = 0

-----------------------------------------------------------------------------

\* what the root returned to the last insert
RootInserted == NodeInsert(Deref(pre.node), last.arg, pre.depth - 1)

\* C21: an insert into a tree that has a root leaves the depth as it was or
\* one more, one more exactly when the root was split: the new root then has
\* the median as its only pivot, the old root as head and the new node as
\* tail[0].  (An insert into a tree without a root makes a leaf root at depth
\* 1.)  No remove, remove_first, remove_last, get, first or last ever leaves
\* the depth greater than it was.
C21_DepthOnInsert ==
    /\ (last.op = "insert" /\ pre.depth >= 1) =>
           LET r == RootInserted
               split == r.res = Propagate
           IN /\ tree.depth \in {pre.depth, pre.depth + 1}
              /\ tree.depth = pre.depth + 1 <=> split
              /\ split <=> \E ev \in Splits : ev.h = pre.depth - 1
              /\ split <=> HasEvent("grow", pre.depth)
              /\ split =>
                    /\ Deref(tree.node).len = 1
                    /\ Deref(tree.node).pivots = AvPush(AvNew, 0, r.pivot)
                    /\ Deref(tree.node).head = <<r.node>>
                    /\ Deref(tree.node).tail = AvPush(AvNew, 0, r.right)
              /\ ~split => tree.node = <<r.node>>
    /\ (last.op = "insert" /\ pre.depth = 0) =>
           tree.depth = 1 /\ Splits = {} /\ Childless(Deref(tree.node))
    /\ last.op \in {"remove", "remove_first", "remove_last", "get", "first", "last"} =>
           tree.depth <= pre.depth

\* an insert that split the root of a tree of depth 2
C21_Witness ==
    /\ last.op = "insert"
    /\ pre.depth = 2
    /\ tree.depth = 3
    /\ Cardinality(Splits) = 2

-----------------------------------------------------------------------------

Rotations == Repairs \ Merges

\* the number of nodes of a subtree
RECURSIVE NodeCount(_, _)
RECURSIVE NodeCountFrom(_, _, _)
NodeCount(node, height) ==
    IF height = 0 THEN 1 ELSE 1 + NodeCountFrom(node, height, 0)

NodeCountFrom(node, height, i) ==
    IF i > node.len \/ i > M THEN 0
    ELSE NodeCount(Deref(Kid(node, i)), height - 1) + NodeCountFrom(node, height, i + 1)

TreeCount(t) == IF t.depth = 0 THEN 0 ELSE NodeCount(Deref(t.node), t.depth - 1)

\* the pivots and the children of child number j
KidPivots(node, j) == AvSlice(Deref(Kid(node, j)).pivots, KidLen(node, j))
KidKids(node, j) == KidsOf(Deref(Kid(node, j)))

FirstOf(sq) == sq[1]
LastOf(sq) == sq[Len(sq)]
Front(sq) == SubSeq(sq, 1, Len(sq) - 1)

\* the rotation took the first pivot of child a + 1 up and the pivot between
\* children a and a + 1 down to the end of child a, and with it the first
\* child of child a + 1 to the end of the children of child a
MovedLeft(ev, a) ==
    /\ KidPivots(ev.node, a) = Append(KidPivots(ev.self, a), ev.self.pivots[a + 1])
    /\ ev.node.pivots[a + 1] = FirstOf(KidPivots(ev.self, a + 1))
    /\ KidPivots(ev.node, a + 1) = Tail(KidPivots(ev.self, a + 1))
    /\ IF ev.h = 1
       THEN Childless(Deref(Kid(ev.node, a))) /\ Childless(Deref(Kid(ev.node, a + 1)))
       ELSE /\ KidKids(ev.node, a) =
                  Append(KidKids(ev.self, a), FirstOf(KidKids(ev.self, a + 1)))
            /\ KidKids(ev.node, a + 1) = Tail(KidKids(ev.self, a + 1))

\* the rotation took the last pivot of child a up and the pivot between
\* children a and a + 1 down to the front of child a + 1, and with it the last
\* child of child a to the front of the children of child a + 1
MovedRight(ev, a) ==
    /\ KidPivots(ev.node, a + 1) =
           <<ev.self.pivots[a + 1]>> \o KidPivots(ev.self, a + 1)
    /\ ev.node.pivots[a + 1] = LastOf(KidPivots(ev.self, a))
    /\ KidPivots(ev.node, a) = Front(KidPivots(ev.self, a))
    /\ IF ev.h = 1
       THEN Childless(Deref(Kid(ev.node, a))) /\ Childless(Deref(Kid(ev.node, a + 1)))
       ELSE /\ KidKids(ev.node, a + 1) =
                  <<LastOf(KidKids(ev.self, a))>> \o KidKids(ev.self, a + 1)
            /\ KidKids(ev.node, a) = Front(KidKids(ev.self, a))

\* C22: a rotation moves one element through the pivot of the parent that
\* separates the child that underflowed from the sibling that lends: after
\* it the child has exactly M/2 pivots, the lender one fewer than before and
\* still at least M/2; between internal siblings exactly one child goes from
\* the lender's adjacent end to the receiver's adjacent end; the parent keeps
\* its len, its other pivots and its other children; the number of nodes is
\* the same, and the parent reports Done.
C22_Rotation ==
    \A ev \in Rotations :
        LET to == ev.i
            from == IF ev.e = "rotate_left" THEN ev.i + 1 ELSE ev.i - 1
            a == IF from < to THEN from ELSE to
        IN /\ from \in 0..ev.self.len
           /\ KidLen(ev.node, to) = M \div 2
           /\ KidLen(ev.node, from) = KidLen(ev.self, from) - 1
           /\ KidLen(ev.node, from) >= M \div 2
           /\ IF ev.e = "rotate_left" THEN MovedLeft(ev, a) ELSE MovedRight(ev, a)
           /\ ev.node.len = ev.self.len
           /\ Len(KidsOf(ev.node)) = Len(KidsOf(ev.self))
           /\ \A j \in 0..ev.self.len :
                  j \notin {from, to} => Kid(ev.node, j) = Kid(ev.self, j)
           /\ \A j \in 1..ev.self.len :
                  j # a + 1 => ev.node.pivots[j] = ev.self.pivots[j]
           /\ NodeCount(ev.node, ev.h) = NodeCount(ev.self, ev.h)
           /\ ev.res = Done
           /\ ~\E up \in Repairs : up.h > ev.h

\* a rotation to the left between internal siblings
C22_Witness == \E ev \in Rotations : ev.h = 2 /\ ev.e = "rotate_left"

\* a rotation to the right between internal siblings, and one of each between
\* leaves
C22_WitnessRight == \E ev \in Rotations : ev.h = 2 /\ ev.e = "rotate_right"
C22_WitnessLeafLeft == \E ev \in Rotations : ev.h = 1 /\ ev.e = "rotate_left"
C22_WitnessLeafRight == \E ev \in Rotations : ev.h = 1 /\ ev.e = "rotate_right"

-----------------------------------------------------------------------------

\* the assertions of merge_left, merge_right, rotate_left and rotate_right
RepairAsserts == {"merge:len", "rotate:height", "rotate:lender", "rotate:borrower"}

\* C23: every assertion that guards a repair helper holds.  When a repair
\* starts, the child that underflowed has exactly M/2 - 1 pivots; a merge is
\* entered with lhs.len + rhs.len + 1 = M; rotate_left with rhs.len > M/2
\* and lhs.len = M/2 - 1; rotate_right with lhs.len > M/2 and
\* rhs.len = M/2 - 1; and every one of them at a height above 0.
C23_RepairAsserts ==
    /\ last.bad \cap RepairAsserts = {}
    /\ \A ev \in Repairs :
           LET lhs == IF ev.e \in {"rotate_left", "merge_left"} THEN ev.i ELSE ev.i - 1
           IN /\ ev.h > 0
              /\ ev.i \in 0..ev.self.len
              /\ lhs \in 0..(ev.self.len - 1)
              /\ KidLen(ev.self, ev.i) = M \div 2 - 1
              /\ ev \in Merges => KidLen(ev.self, lhs) + KidLen(ev.self, lhs + 1) + 1 = M
              /\ ev.e = "rotate_left" =>
                     /\ KidLen(ev.self, lhs + 1) > M \div 2
                     /\ KidLen(ev.self, lhs) = M \div 2 - 1
              /\ ev.e = "rotate_right" =>
                     /\ KidLen(ev.self, lhs) > M \div 2
                     /\ KidLen(ev.self, lhs + 1) = M \div 2 - 1

\* a remove that merged two leaves and then rotated between their parents
C23_Witness ==
    \E a \in Merges, b \in Rotations : a.h = 1 /\ b.h = 2

\* a remove that merged at two heights, with either helper
C23_WitnessMerges ==
    \E a \in Merges, b \in Merges : a.e = "merge_left" /\ b.e = "merge_right"

-----------------------------------------------------------------------------

\* the pivots a node holds, in order
LivePivots(node) == AvSlice(node.pivots, node.len)

\* the rows of the split table for an index at the median and below it:
\* at the median the incoming value goes up, self keeps [0..m) and the right
\* node gets [m..M); below it pivot m - 1 goes up, self keeps [0..m-1) with
\* the value put in at i, and the right node gets [m..M)
SplitRowsLow(ev) ==
    LET m == M \div 2
        orig == LivePivots(ev.self)
        left == LivePivots(ev.left)
        right == LivePivots(Deref(ev.right))
    IN /\ ev.i = m =>
           /\ ev.pivot = ev.value
           /\ left = SubSeq(orig, 1, m)
           /\ right = SubSeq(orig, m + 1, M)
       /\ ev.i < m =>
           /\ ev.pivot = orig[m]
           /\ left = PutIn(SubSeq(orig, 1, m - 1), ev.i, ev.value)
           /\ right = SubSeq(orig, m + 1, M)

\* C24 as stated: the rows for i = m and i < m, and for i > m pivot m goes
\* up, self keeps the original [0..m], pivot m included, and the right node
\* gets (m..M) with the value put in at i - m - 1.
C24_SplitTableStated ==
    \A ev \in Splits :
        LET m == M \div 2
            orig == LivePivots(ev.self)
        IN /\ SplitRowsLow(ev)
           /\ ev.i > m =>
               /\ ev.pivot = orig[m + 1]
               /\ LivePivots(ev.left) = SubSeq(orig, 1, m + 1)
               /\ LivePivots(Deref(ev.right)) =
                      PutIn(SubSeq(orig, m + 2, M), ev.i - m - 1, ev.value)

\* C24, amended: the rows for i = m and i < m, and for i > m pivot m goes up,
\* self keeps the original [0..m), pivot m excluded, and the right node gets
\* (m..M) with the value put in at i - m - 1.
C24_SplitTable ==
    \A ev \in Splits :
        LET m == M \div 2
            orig == LivePivots(ev.self)
        IN /\ ev.self.len = M
           /\ SplitRowsLow(ev)
           /\ ev.i > m =>
               /\ ev.pivot = orig[m + 1]
               /\ LivePivots(ev.left) = SubSeq(orig, 1, m)
               /\ LivePivots(Deref(ev.right)) =
                      PutIn(SubSeq(orig, m + 2, M), ev.i - m - 1, ev.value)
               /\ ev.left.pivots[m + 1] = <<>>

\* a split of a leaf at an index above the median under a split of its parent
\* at an index below the median
C24_Witness ==
    /\ \E ev \in Splits : ev.h = 0 /\ ev.i > M \div 2
    /\ \E ev \in Splits : ev.h = 1 /\ ev.i < M \div 2

\* a split of a leaf at an index below the median under a split of its parent
\* at an index above the median, and a split of both at the median
C24_WitnessHigh ==
    /\ \E ev \in Splits : ev.h = 0 /\ ev.i < M \div 2
    /\ \E ev \in Splits : ev.h = 1 /\ ev.i > M \div 2
C24_WitnessMid == \A h \in 0..1 : \E ev \in Splits : ev.h = h /\ ev.i = M \div 2

-----------------------------------------------------------------------------

Happened(e) == \E i \in 1..Len(last.ev) : last.ev[i].e = e

\* 1 if the last operation logged the event, else 0
OneIf(e) == IF Happened(e) THEN 1 ELSE 0

\* C25: every node sits in exactly one slot of one parent (or is the root)
\* and no slot outside a node's children 0..len holds a node, so every node
\* there is is met on the way down from the root.  An insert adds as many
\* nodes as it made splits, plus one if it made a new root or the first
\* leaf; a remove takes away as many nodes as it made merges, plus one if it
\* dropped the root; a remove that only rotated, an insert over an equal
\* element and the lookups leave the number of nodes as it was.
C25_NodeAccounting ==
    /\ Cardinality(Nodes(tree)) = TreeCount(tree)
    /\ \A x \in Nodes(tree) :
           IF x.h = 0 THEN Childless(x.n)
           ELSE \A j \in 1..M : j > x.n.len => x.n.tail[j] = <<>>
    /\ last.op = "insert" =>
           /\ TreeCount(tree) =
                  TreeCount(pre) + Cardinality(Splits) + OneIf("grow") + OneIf("first")
           /\ ~(Happened("grow") /\ Happened("first"))
           /\ Found(last.was, CellKey(last.arg)) # <<>> =>
                  Splits = {} /\ TreeCount(tree) = TreeCount(pre)
    /\ Removing =>
           /\ TreeCount(tree) = TreeCount(pre) - Cardinality(Merges) - OneIf("shrink")
           /\ (Merges = {} /\ ~Happened("shrink")) => TreeCount(tree) = TreeCount(pre)
    /\ last.op \in {"get", "first", "last"} => tree = pre

\* an insert that split a leaf and the root above it and made a new root
C25_Witness ==
    /\ last.op = "insert"
    /\ Cardinality(Splits) = 2
    /\ TreeCount(tree) = TreeCount(pre) + 3

\* a remove that merged at two heights and dropped the root, a remove that
\* rotated between internal nodes, and an insert over an equal element
C25_WitnessRemove ==
    /\ Removing
    /\ Cardinality(Merges) = 2
    /\ TreeCount(tree) = TreeCount(pre) - 3
C25_WitnessRotate ==
    /\ Removing
    /\ \E ev \in Rotations : ev.h = 2
    /\ TreeCount(tree) = TreeCount(pre) - 1
C25_WitnessReplace ==
    /\ last.op = "insert"
    /\ Found(last.was, CellKey(last.arg)) # <<>>
    /\ pre.depth = 2

-----------------------------------------------------------------------------

\* the positions in the log of the last operation that hold such a record
LogAt(E) == {j \in 1..Len(last.ev) : last.ev[j].e \in E}

\* the calls on the way down, and the calls rotations made on a lender
Visits == LogAt({"visit"})
Lends == LogAt({"lend"})

\* what a node does on the way back up
Rebuilds == {"split", "rotate_left", "rotate_right", "merge_left", "merge_right"}

\* the root was asked: there is one, and remove does not ask a root that
\* holds nothing
RootAsked ==
    /\ last.op \in {"insert", "get", "first", "last", "remove", "remove_first",
                    "remove_last"}
    /\ pre.depth >= 1
    /\ Removing => Deref(pre.node).len > 0

\* the key the last operation looked for is a pivot above the leaves
HitAbove ==
    /\ last.op \in {"insert", "get"}
    /\ (IF last.op = "insert" THEN CellKey(last.arg) ELSE last.arg[1]) \in InnerKeys(pre)

\* C26: every operation ends after one walk down a single path: the calls
\* come first in its log, call number j is at height depth - j, so there is
\* at most one call per level and at most depth calls; a remove goes all the
\* way to a leaf, also after it met its key above the leaves, and insert and
\* get stop early only at a pivot equal to the key.  On the way back up a
\* level does at most one split or one repair.  (A rotation between leaves
\* calls remove once more, on the lender, which is a leaf and calls nothing.)
C26_OnePath ==
    /\ Visits = 1..Cardinality(Visits)
    /\ \A j \in Visits : last.ev[j].h = pre.depth - j
    /\ Cardinality(Visits) <= pre.depth
    /\ RootAsked <=> Visits # {}
    /\ (RootAsked /\ ~HitAbove) => Cardinality(Visits) = pre.depth
    /\ (RootAsked /\ HitAbove) => Cardinality(Visits) < pre.depth
    /\ \A h \in 0..pre.depth :
           Cardinality({j \in LogAt(Rebuilds) : last.ev[j].h = h}) <= 1
    /\ \A j \in LogAt(Rebuilds) : last.ev[j].h \in 0..(pre.depth - 1)
    /\ \A j, k \in LogAt(Rebuilds) : j < k => last.ev[j].h < last.ev[k].h
    /\ Cardinality(Lends) <= 1
    /\ \A j \in Lends :
           /\ last.ev[j].h = 0
           /\ j > 1
           /\ last.ev[j - 1].e \in {"rotate_left", "rotate_right"}
           /\ last.ev[j - 1].h = 1

\* a remove that met its key in the root of a tree of depth 3, went on to a
\* leaf, and repaired at both levels on the way back
C26_Witness ==
    /\ last.op = "remove"
    /\ pre.depth = 3
    /\ \E ev \in Swaps : ev.h = 2
    /\ Cardinality(Visits) = 3
    /\ Cardinality(LogAt(Rebuilds)) = 2

\* an insert that split at every level of a tree of depth 2, a get that
\* stopped at the root of a tree of depth 3, and a rotation between leaves
C26_WitnessInsert ==
    /\ last.op = "insert"
    /\ pre.depth = 2
    /\ Cardinality(Visits) = 2
    /\ Cardinality(LogAt({"split"})) = 2
C26_WitnessGet ==
    /\ last.op = "get"
    /\ pre.depth = 3
    /\ Cardinality(Visits) = 1
    /\ last.ret # <<>>
C26_WitnessLend == Lends # {} /\ pre.depth = 3

-----------------------------------------------------------------------------

\* C27: the branches marked unreachable are not reached.  In a rotation
\* between leaves the remove on the lender with First or Last returns Done,
\* not None and not Underflow: the lender holds more than M/2 elements.  When
\* remove meets its key above the leaves, the remove on the child with Last
\* does not return None: that child holds an element, as every subtree
\* under an internal node does.
C27_Unreachable ==
    /\ last.bad \cap {"unreachable", "empty_subtree"} = {}
    /\ \A ev \in Rotations :
           ev.h = 1 =>
               LET from == IF ev.e = "rotate_left" THEN ev.i + 1 ELSE ev.i - 1
               IN /\ Outcome(KidLen(ev.self, from) - 1) = Done
                  /\ KidPivots(ev.self, from) # <<>>
                  /\ Cardinality(Lends) = 1
    /\ \A ev \in Swaps :
           /\ KidOrder(ev.self, ev.h, ev.i) # <<>>
           /\ last.ret # <<>>
    /\ \A x \in Nodes(pre) \cup Nodes(tree) :
           x.h > 0 => \A j \in 0..x.n.len : InOrder(Deref(Kid(x.n, j)), x.h - 1) # <<>>

\* a remove that met its key above the leaves and on the way back rotated
\* between leaves
C27_Witness ==
    /\ Swaps # {}
    /\ \E ev \in Rotations : ev.h = 1
    /\ Lends # {}

\* the same with the lender on the left and on the right
C27_WitnessLeft == Swaps # {} /\ \E ev \in Rotations : ev.h = 1 /\ ev.e = "rotate_right"
C27_WitnessRight == Swaps # {} /\ \E ev \in Rotations : ev.h = 1 /\ ev.e = "rotate_left"

-----------------------------------------------------------------------------

\* the labels of a subtraction whose result would be below 0
SubLabels == {"sub:len", "sub:index", "sub:height", "sub:depth", "sub:M"}

\* C28: no subtraction goes below 0, with M even and at least 2.  Every
\* len -= 1 meets a len of at least 1: in the leaf that gives up an element,
\* in the parent of a merge, in the lender of a rotation above the leaves.
\* index - (M/2 + 1) in a split is taken only for an index of at least
\* M/2 + 1; height - 1 only at a height of at least 1, so every call is at a
\* height of 0 or more; M/2 - 1 is 0 or more; the depth is lowered only from 2
\* or more and stays 1 or more while there is a root; and the Last probe asks
\* for the index len - 1 only of a slice that holds something.
C28_NoUnderflow ==
    /\ M >= 2 /\ M % 2 = 0 /\ M \div 2 - 1 >= 0
    /\ last.bad \cap SubLabels = {}
    /\ \A j \in Visits \cup Lends : last.ev[j].h >= 0
    /\ \A ev \in Splits : ev.i > M \div 2 => ev.i - (M \div 2 + 1) >= 0
    /\ \A ev \in Merges : ev.self.len >= 1 /\ ev.node.len = ev.self.len - 1
    /\ \A ev \in Rotations :
           ev.h > 1 =>
               KidLen(ev.self, IF ev.e = "rotate_left" THEN ev.i + 1 ELSE ev.i - 1) >= 1
    /\ \A ev \in Repairs : ev.h - 1 >= 0
    /\ (Removing /\ last.ret # <<>>) => Len(Contents(pre)) >= 1
    /\ Happened("shrink") => pre.depth >= 2 /\ tree.depth = pre.depth - 1
    /\ tree.depth >= 0
    /\ \A x \in Nodes(tree) :
           /\ x.n.len >= 0
           /\ x.h >= 0
           /\ binary_search(Last, AvSlice(x.n.pivots, x.n.len), x.h).idx >= 0

\* a remove that took the last element of a leaf, merged it away under a
\* parent with one pivot, and lowered the depth from 2 to 1
C28_Witness ==
    /\ Removing
    /\ Happened("shrink")
    /\ pre.depth = 2
    /\ \E ev \in Merges : ev.self.len = 1

\* a split at an index above the median, a rotation above the leaves, and a
\* root leaf that was emptied
C28_WitnessSplit == \E ev \in Splits : ev.i = M \div 2 + 1
C28_WitnessRotate == \E ev \in Rotations : ev.h = 2
C28_WitnessEmpty ==
    /\ Removing
    /\ tree.depth = 1
    /\ Deref(tree.node).len = 0
    /\ Deref(pre.node).len = 1

-----------------------------------------------------------------------------

\* the elements a slot array holds, in order
SlotsHeld(a) == AvSlice(a.xs, a.len)

\* C29: on a slot array whose first len slots hold elements, remove(len, i)
\* with i < len <= M returns the element that was at index i, and the first
\* len - 1 slots then hold what was held before without that element, the
\* others in their order; insert(len, i, v) puts v in at index i before what
\* was there; and insert(len, i, v) followed by remove(len + 1, i) returns
\* v and leaves the first len slots as they were before the insert.
C29_SlotRemove ==
    slots # NoSlots =>
        /\ slots.op = "remove" =>
               /\ slots.index < slots.before.len /\ slots.before.len <= M
               /\ slots.out = slots.before.xs[slots.index + 1]
               /\ slots.out # <<>>
               /\ slots.len = slots.before.len - 1
               /\ SlotsHeld(slots) = TakeOut(SlotsHeld(slots.before), slots.index)
        /\ slots.op = "insert" =>
               /\ slots.len = slots.before.len + 1
               /\ SlotsHeld(slots) =
                      PutIn(SlotsHeld(slots.before), slots.index, slots.element)
        /\ (slots.op = "remove" /\ slots.prior.op = "insert"
                /\ slots.prior.index = slots.index) =>
               /\ slots.out = slots.prior.element
               /\ slots.len = slots.prior.before.len
               /\ SlotsHeld(slots) = SlotsHeld(slots.prior.before)
               /\ \A j \in 1..slots.len : slots.xs[j] = slots.prior.before.xs[j]

\* an insert in front of an element followed by a remove at the same index,
\* which moved that element back
C29_Witness ==
    /\ slots # NoSlots
    /\ slots.op = "remove"
    /\ slots.prior.op = "insert"
    /\ slots.index = 0
    /\ slots.prior.index = 0
    /\ slots.prior.before.len = M - 1
    /\ slots.len = M - 1

\* a remove in front of an element on a full array, and one at its end
C29_WitnessFull ==
    /\ slots # NoSlots
    /\ slots.op = "remove"
    /\ slots.before.len = M
    /\ slots.index = 0
C29_WitnessEnd ==
    /\ slots # NoSlots
    /\ slots.op = "remove"
    /\ slots.before.len = M
    /\ slots.index = M - 1

====
